---- MODULE Spec2Model ----
(***************************************************************************)
(* Resilient acquisition pipeline of crypto-price-tracker (backend).       *)
(*                                                                         *)
(*   lib/retry.py                  backoff executor (retry_with_backoff)   *)
(*   services/*_client.py          source clients and response mappers     *)
(*   services/validation_service   validator / filter                      *)
(*   services/cache_service.py     cache store (JSON over Redis, SETEX)    *)
(*   lib/redis_client.py           process-wide Redis client               *)
(*   lib/error_handling.py         caller-visible errors                   *)
(*                                                                         *)
(* Times are in milliseconds for the executor's delays and in seconds for  *)
(* the clock, the timestamps and the cache TTLs.                           *)
(***************************************************************************)
EXTENDS Integers, Sequences, FiniteSets, TLC

(***************************************************************************)
(* Bounds of the model.                                                    *)
(***************************************************************************)
\* largest retry budget max_attempts explored for the generic executor
MaxAttempts == 4

(***************************************************************************)
(* Exceptions.  An exception is a record: its class and, for               *)
(* httpx.HTTPStatusError, the status code of the response (0 otherwise).   *)
(***************************************************************************)
Exc(type, status) == [type |-> type, status |-> status]

\* last_exception: Optional[Exception] = None
NoExc == Exc("None", 0)

\* Status codes for which response.raise_for_status() raises HTTPStatusError.
ErrorStatuses == {400, 429, 499, 500, 599}

\* What one invocation of a wrapped source-client fetch can raise:
\* httpx timeouts and connection failures, an error status, asyncio's timeout,
\* and the errors of a malformed body (response.json() / ['data']).
OperationFailures ==
    { Exc(t, 0) : t \in {"TimeoutException", "ConnectTimeout", "ConnectError",
                         "AsyncioTimeoutError", "ValueError", "KeyError"} }
    \cup { Exc("HTTPStatusError", s) : s \in ErrorStatuses }

\* The classes an exception of class t is an instance of (Python's MRO, as far
\* as the classes named in retry.py are concerned).
Ancestors(t) ==
    CASE t = "ConnectTimeout" -> {"ConnectTimeout", "TimeoutException", "Exception"}
      [] t = "CancelledError" -> {"CancelledError", "BaseException"}
      [] OTHER -> {t, "Exception"}

\* isinstance(e, classes)
IsInstance(e, classes) == Ancestors(e.type) \cap classes # {}

\* One failure of each kind, for the fetches made inside a request: a
\* timeout, a rate limit, a 4xx status and a malformed body.
RequestFailures ==
    {Exc("TimeoutException", 0), Exc("HTTPStatusError", 429),
     Exc("HTTPStatusError", 400), Exc("ValueError", 0)}


(***************************************************************************)
(* The classification and the delay of retry.py.                           *)
(***************************************************************************)
\* A faulty is_retryable_error, for sensitivity runs: every error status is retried.
is_retryable_error_AnyStatus(e) ==
    IF IsInstance(e, {"TimeoutException", "AsyncioTimeoutError"}) THEN TRUE
    ELSE IF IsInstance(e, {"ConnectError", "ConnectTimeout"}) THEN TRUE
    ELSE IF IsInstance(e, {"HTTPStatusError"}) THEN e.status >= 400
    ELSE FALSE

\* A faulty is_retryable_error, for sensitivity runs: the 5xx range stops short of 599.
is_retryable_error_Below599(e) ==
    IF IsInstance(e, {"TimeoutException", "AsyncioTimeoutError"}) THEN TRUE
    ELSE IF IsInstance(e, {"ConnectError", "ConnectTimeout"}) THEN TRUE
    ELSE IF IsInstance(e, {"HTTPStatusError"})
         THEN 500 <= e.status /\ e.status < 599
    ELSE FALSE

\* is_retryable_error(exception).  The second HTTPStatusError test of the
\* source (status 429) follows a return taken by every HTTPStatusError.
is_retryable_error(e) ==
    IF IsInstance(e, {"TimeoutException", "AsyncioTimeoutError"}) THEN TRUE
    ELSE IF IsInstance(e, {"ConnectError", "ConnectTimeout"}) THEN TRUE
    ELSE IF IsInstance(e, {"HTTPStatusError"})
         THEN 500 <= e.status /\ e.status < 600
    ELSE IF IsInstance(e, {"HTTPStatusError"}) THEN e.status = 429
    ELSE FALSE

\* the cap of exponential_backoff_delay, 30.0 seconds
MaxDelayMs == 30000

Min(a, b) == IF a <= b THEN a ELSE b

\* A faulty BackoffDelay, for sensitivity runs: the delay is not capped.
BackoffDelay_NoCap(k, base) == base * (2 ^ k)

\* delay = min(base_delay * (2**attempt), 30.0), in milliseconds
BackoffDelay(k, base) == Min(base * (2 ^ k), MaxDelayMs)

\* retry_with_backoff's defaults and the retry_api_call configuration
DefaultMaxAttempts == 3
DefaultBaseDelayMs == 1000
DefaultRetryableExceptions == {"Exception"}
ApiCallMaxAttempts == 3
ApiCallBaseDelayMs == 1000
\* A faulty ApiCallRetryableExceptions, for sensitivity runs: asyncio's timeout is in the tuple.
ApiCallRetryableExceptions_WithAsyncio ==
    {"TimeoutException", "ConnectError", "ConnectTimeout", "HTTPStatusError",
     "AsyncioTimeoutError"}

ApiCallRetryableExceptions ==
    {"TimeoutException", "ConnectError", "ConnectTimeout", "HTTPStatusError"}

\* The configurations the generic executor is explored under.
BaseDelays == {500, DefaultBaseDelayMs, 2000, 16000}
ExceptionTuples == {DefaultRetryableExceptions, ApiCallRetryableExceptions}

(***************************************************************************)
(* How a wrapper call ends.                                                *)
(***************************************************************************)
NoResult == [kind |-> "none", items |-> <<>>]
Outcome(kind, result, attempts, exc) ==
    [kind |-> kind, result |-> result, attempts |-> attempts, exc |-> exc]
Running == Outcome("running", NoResult, 0, NoExc)

\* A faulty ReturnOutcome, for sensitivity runs: the wrapper returns without the result.
ReturnOutcome_DropsResult(result) == Outcome("returned", NoResult, 0, NoExc)

\* return cast(T, result)
ReturnOutcome(result) == Outcome("returned", result, 0, NoExc)

\* a bare raise of a non-retryable error, or an error the except clause
\* does not catch: the operation's own error reaches the caller
ReraiseOutcome(e) == Outcome("raised", NoResult, 0, e)

\* A faulty ExhaustedOutcome, for sensitivity runs: the last failure is swallowed and the wrapper
\* returns None.
ExhaustedOutcome_Swallowed(n, e) == Outcome("returned", NoResult, 0, NoExc)

\* raise RetryExhausted(max_attempts, e) from e
ExhaustedOutcome(n, e) == Outcome("RetryExhausted", NoResult, n, e)

\* assert last_exception is not None, failing
AssertionOutcome == Outcome("AssertionError", NoResult, 0, NoExc)

\* if attempt == max_attempts - 1
IsLastAttempt(k, n) == k = n - 1

\* for attempt in range(max_attempts)
InRange(k, n) == 0 <= k /\ k < n

(***************************************************************************)
(* Values of the payloads.  A JSON or Python value is a record: its type   *)
(* tag t, a number n and a text s.  Numbers are held in thousandths, as    *)
(* e9 * 10^9 + n thousandths with 0 <= n < 10^9 whenever e9 > 0; a         *)
(* datetime and an ISO-8601 string hold the instant in n, in seconds.      *)
(***************************************************************************)
Val(t, e9, n, s) == [t |-> t, e9 |-> e9, n |-> n, s |-> s]
\* the int k and the float of m thousandths
IntV(k) == Val("int", 0, k * 1000, "")
FloatV(m) == Val("float", 0, m, "")
Big(t, e9, m) == Val(t, e9, m, "")
NaN == Val("nan", 0, 0, "")
PosInf == Val("inf", 0, 1, "")
None == Val("none", 0, 0, "")
Missing == Val("missing", 0, 0, "")
Str(s) == Val("str", 0, 0, s)
\* an aware datetime, and the ISO-8601 text of one ("...Z" or with an offset)
DateTime(sec) == Val("datetime", 0, sec, "")
IsoString(sec) == Val("str", 0, sec, "iso8601")
\* a datetime without tzinfo, and the ISO-8601 text of one (no offset)
NaiveDateTime(sec) == Val("datetime", 0, sec, "naive")
NaiveIsoString(sec) == Val("str", 0, sec, "iso8601-naive")
\* a value json has no encoding for (a set, a Decimal, a bytes)
Object == Val("object", 0, 0, "")

\* isinstance(v, (int, float)): nan and inf are floats
IsNumber(v) == v.t \in {"int", "float", "nan", "inf"}
\* isinstance(v, int)
IsInt(v) == v.t = "int"
\* isinstance(v, str)
IsStr(v) == v.t = "str"
\* isinstance(v, datetime)
IsDateTime(v) == v.t = "datetime"
\* bool(v) of a value read with dict.get: None, '' and 0 are falsy
Truthy(v) ==
    CASE v.t \in {"none", "missing"} -> FALSE
      [] v.t = "str" -> v.s # ""
      [] v.t \in {"int", "float"} -> v.e9 # 0 \/ v.n # 0
      [] OTHER -> TRUE

\* v <= 0, v < 0 and v >= 0 of a number (every comparison with nan is False)
LeqZero(v) ==
    CASE v.t = "nan" -> FALSE
      [] v.t = "inf" -> v.n < 0
      [] OTHER -> v.e9 < 0 \/ (v.e9 = 0 /\ v.n <= 0)
LtZero(v) ==
    CASE v.t = "nan" -> FALSE
      [] v.t = "inf" -> v.n < 0
      [] OTHER -> v.e9 < 0 \/ (v.e9 = 0 /\ v.n < 0)
GeqZero(v) ==
    CASE v.t = "nan" -> FALSE
      [] v.t = "inf" -> v.n > 0
      [] OTHER -> v.e9 > 0 \/ (v.e9 = 0 /\ v.n >= 0)
\* v > k * 10^9 and v >= k * 10^9 (k a number of thousand millions of units)
GtE9(v, k) ==
    CASE v.t = "nan" -> FALSE
      [] v.t = "inf" -> v.n > 0
      [] OTHER -> v.e9 > k * 1000 \/ (v.e9 = k * 1000 /\ v.n > 0)
GeqE9(v, k) ==
    CASE v.t = "nan" -> FALSE
      [] v.t = "inf" -> v.n > 0
      [] OTHER -> v.e9 >= k * 1000

(***************************************************************************)
(* Response mappers (coingecko_client.py, coinmarketcap_client.py) and     *)
(* compute_market_cap_category (formatters.py).                            *)
(***************************************************************************)
\* str.upper() and str.lower() on the symbols and identifiers of the model
Upper(s) ==
    CASE s = "btc" -> "BTC" [] s = "eth" -> "ETH" [] s = "doge" -> "DOGE"
      [] OTHER -> s
Lower(s) ==
    CASE s = "BTC" -> "btc" [] s = "ETH" -> "eth" [] s = "DOGE" -> "doge"
      [] OTHER -> s

\* A faulty compute_market_cap_category, for sensitivity runs: 10^10 is large.
compute_market_cap_category_ExclusiveMid(cap) ==
    IF GeqE9(cap, 10) THEN Str("large")
    ELSE IF GeqE9(cap, 1) THEN Str("mid")
    ELSE Str("small")

\* compute_market_cap_category(market_cap): 'large' above 10^10, 'mid' from
\* 10^9, else 'small'
compute_market_cap_category(cap) ==
    IF GtE9(cap, 10) THEN Str("large")
    ELSE IF GeqE9(cap, 1) THEN Str("mid")
    ELSE Str("small")

\* A faulty PriceDirection, for sensitivity runs: zero is 'down'.
PriceDirection_ZeroIsDown(pct) ==
    IF GeqZero(pct) /\ ~LeqZero(pct) THEN Str("up") ELSE Str("down")

\* 'up' if percent >= 0 else 'down'
PriceDirection(pct) == IF GeqZero(pct) THEN Str("up") ELSE Str("down")

\* A faulty FloorToHour, for sensitivity runs: the minutes are kept.
FloorToHour_KeepsMinutes(t) == t

\* now.replace(minute=0, second=0, microsecond=0), in seconds
FloorToHour(t) == t - (t % 3600)

\* map_sparkline_data(prices) at clock reading now
map_sparkline_data(prices, now) ==
    [i \in 1..Len(prices) |->
        [timestamp |-> DateTime(FloorToHour(now) - (Len(prices) - i) * 3600),
         price |-> prices[i]]]

\* The sparkline_in_7d member of a CoinGecko record: absent, null, an object
\* without a price array, or an object with one.
Sparkline(shape, prices) == [shape |-> shape, price |-> prices]

\* api_data.get('sparkline_in_7d', {}).get('price', [])
\*     if 'sparkline_in_7d' in api_data else []
SparklinePrices(sl) == IF sl.shape = "prices" THEN sl.price ELSE <<>>

\* datetime.fromisoformat(text.replace('Z', '+00:00')) is defined on
IsIsoText(v) == IsStr(v) /\ v.s \in {"iso8601", "iso8601-naive"}
FromIsoFormat(v) ==
    IF v.s = "iso8601-naive" THEN NaiveDateTime(v.n) ELSE DateTime(v.n)

\* The raw members read with api_data[...] by map_coingecko_response.
CoinGeckoRequired ==
    {"id", "symbol", "name", "current_price", "market_cap", "total_volume",
     "price_change_24h", "price_change_percentage_24h", "market_cap_rank",
     "last_updated"}

\* map_coingecko_response raises (KeyError, AttributeError, TypeError or
\* ValueError) instead of returning a record
CoinGeckoMapperRaises(raw) ==
    \/ \E k \in CoinGeckoRequired : raw[k].t = "missing"
    \/ raw.sparkline_in_7d.shape = "null"
    \/ ~IsStr(raw.symbol)
    \/ ~IsIsoText(raw.last_updated)
    \/ ~IsNumber(raw.price_change_percentage_24h)
    \/ ~IsNumber(raw.market_cap)

\* map_coingecko_response(api_data) at clock reading now
map_coingecko_response(raw, now) ==
    [id |-> raw.id,
     symbol |-> Str(Upper(raw.symbol.s)),
     name |-> raw.name,
     currentPrice |-> raw.current_price,
     marketCap |-> raw.market_cap,
     volume24h |-> raw.total_volume,
     priceChange24h |-> raw.price_change_24h,
     priceChangePercent24h |-> raw.price_change_percentage_24h,
     sparklineData |-> map_sparkline_data(SparklinePrices(raw.sparkline_in_7d), now),
     rank |-> raw.market_cap_rank,
     lastUpdated |-> FromIsoFormat(raw.last_updated),
     priceDirection |-> PriceDirection(raw.price_change_percentage_24h),
     marketCapCategory |-> compute_market_cap_category(raw.market_cap)]

\* (percent / 100) * price of two numbers, in thousandths
PercentOf(pct, price) ==
    IF pct.t = "nan" \/ price.t = "nan" THEN NaN
    ELSE IF pct.t = "inf" \/ price.t = "inf" THEN PosInf
    ELSE FloatV((pct.n * price.n) \div 100000)

\* The raw members read by map_coinmarketcap_response; the members of
\* quote.USD are held beside the others.
CoinMarketCapRequired ==
    {"symbol", "name", "cmc_rank", "price", "market_cap", "volume_24h",
     "percent_change_24h", "last_updated"}

CoinMarketCapMapperRaises(raw) ==
    \/ \E k \in CoinMarketCapRequired : raw[k].t = "missing"
    \/ ~IsStr(raw.symbol)
    \/ ~IsIsoText(raw.last_updated)
    \/ ~IsNumber(raw.percent_change_24h)
    \/ ~IsNumber(raw.price)
    \/ ~IsNumber(raw.market_cap)

\* map_coinmarketcap_response(api_data)
map_coinmarketcap_response(raw) ==
    [id |-> Str(Lower(raw.symbol.s)),
     symbol |-> raw.symbol,
     name |-> raw.name,
     currentPrice |-> raw.price,
     marketCap |-> raw.market_cap,
     volume24h |-> raw.volume_24h,
     priceChange24h |-> PercentOf(raw.percent_change_24h, raw.price),
     priceChangePercent24h |-> raw.percent_change_24h,
     sparklineData |-> <<>>,
     rank |-> raw.cmc_rank,
     lastUpdated |-> FromIsoFormat(raw.last_updated),
     priceDirection |-> PriceDirection(raw.percent_change_24h),
     marketCapCategory |-> compute_market_cap_category(raw.market_cap)]

(***************************************************************************)
(* Validator / filter (validation_service.py).  An error of the list is    *)
(* its rule and, for a sparkline point, the index of the point (else -1).  *)
(***************************************************************************)
Err(rule, index) == [rule |-> rule, index |-> index]
ErrIf(cond, rule) == IF cond THEN <<Err(rule, -1)>> ELSE <<>>

\* age_minutes > 5 with age_minutes = (now - last_updated).total_seconds() / 60
MaxAgeSeconds == 300
\* len(sparkline_data) > 168
MaxSparklinePoints == 168

\* _is_finite(value)
is_finite(v) == ~(v.t = "nan" \/ v.t = "inf")

\* A faulty SparklinePointErrors, for sensitivity runs: a series needs at
\* least one point, and the points are not examined.
SparklinePointErrors_NeedsOnePoint(points) ==
    IF points = <<>> THEN <<Err("sparklineData.empty", -1)>> ELSE <<>>

\* The errors of the points of a sparkline, in the order of the loop: for
\* point i its timestamp error, then its price error.
SparklinePointErrors(points) ==
    LET cand == [j \in 1..(2 * Len(points)) |->
                   LET i == (j + 1) \div 2
                       p == points[i]
                   IN IF j % 2 = 1
                      THEN [e |-> Err("sparklineData.timestamp", i - 1),
                            bad |-> ~IsDateTime(p.timestamp)]
                      ELSE [e |-> Err("sparklineData.price", i - 1),
                            bad |-> ~IsNumber(p.price) \/ LeqZero(p.price)]]
        hit == SelectSeq(cand, LAMBDA c : c.bad)
    IN [j \in 1..Len(hit) |-> hit[j].e]

\* validate_cryptocurrency(data) raises TypeError: last_updated is a datetime
\* without tzinfo, which datetime.now(timezone.utc) - last_updated refuses
ValidateRaises(data) ==
    IsDateTime(data.lastUpdated) /\ data.lastUpdated.s = "naive"

\* errors of validate_cryptocurrency(data) at clock reading now, when it
\* returns
ValidationErrors(data, now) ==
    ErrIf(~Truthy(data.id) \/ ~IsStr(data.id), "id")
    \o ErrIf(~Truthy(data.symbol) \/ ~IsStr(data.symbol), "symbol")
    \o ErrIf(~Truthy(data.name) \/ ~IsStr(data.name), "name")
    \o ErrIf(~IsNumber(data.currentPrice) \/ LeqZero(data.currentPrice),
             "currentPrice")
    \o ErrIf(~IsNumber(data.marketCap) \/ LeqZero(data.marketCap), "marketCap")
    \o ErrIf(~IsNumber(data.volume24h) \/ LtZero(data.volume24h), "volume24h")
    \o ErrIf(~IsNumber(data.priceChange24h), "priceChange24h")
    \o ErrIf(~IsNumber(data.priceChangePercent24h)
             \/ ~is_finite(data.priceChangePercent24h), "priceChangePercent24h")
    \o ErrIf(~IsInt(data.rank) \/ data.rank.n < 1000 \/ data.rank.n > 20000,
             "rank")
    \o (IF ~IsDateTime(data.lastUpdated)
        THEN <<Err("lastUpdated.type", -1)>>
        ELSE ErrIf(now - data.lastUpdated.n > MaxAgeSeconds, "lastUpdated.stale"))
    \o (IF Len(data.sparklineData) > MaxSparklinePoints
        THEN <<Err("sparklineData.length", -1)>>
        ELSE SparklinePointErrors(data.sparklineData))
    \o ErrIf(data.priceDirection \notin {Str("up"), Str("down")},
             "priceDirection")
    \o ErrIf(data.marketCapCategory \notin {Str("small"), Str("mid"), Str("large")},
             "marketCapCategory")

\* A faulty validate_cryptocurrency, for sensitivity runs: the record is returned with its errors.
validate_cryptocurrency_KeepsData(data, now) ==
    LET errors == ValidationErrors(data, now)
    IN [is_valid |-> Len(errors) = 0,
        errors |-> errors,
        has_data |-> Len(errors) = 0,
        data |-> data]

\* validate_cryptocurrency(data): ValidationResult(is_valid, errors, data)
validate_cryptocurrency(data, now) ==
    LET errors == ValidationErrors(data, now)
    IN [is_valid |-> Len(errors) = 0,
        errors |-> errors,
        has_data |-> Len(errors) = 0,
        data |-> IF Len(errors) = 0 THEN data ELSE None]

\* A faulty filter_valid_cryptocurrencies, for sensitivity runs: every record is kept.
filter_valid_cryptocurrencies_KeepsAll(crypto_list, now) ==
    [valid |-> crypto_list, invalid |-> <<>>]

\* filter_valid_cryptocurrencies(crypto_list) raises: the loop has no try
\* block, so the exception of one validate_cryptocurrency leaves the function
FilterRaises(crypto_list) ==
    \E i \in DOMAIN crypto_list : ValidateRaises(crypto_list[i])

\* filter_valid_cryptocurrencies(crypto_list) when it returns: the valid
\* records, and the invalid ones with their id and errors
filter_valid_cryptocurrencies(crypto_list, now) ==
    LET ok(d) == LET v == validate_cryptocurrency(d, now)
                 IN v.is_valid /\ v.has_data
        bad == SelectSeq(crypto_list, LAMBDA d : ~ok(d))
    IN [valid |-> SelectSeq(crypto_list, ok),
        invalid |-> [j \in 1..Len(bad) |->
                       [id |-> IF bad[j].id.t = "missing" THEN Str("unknown")
                               ELSE bad[j].id,
                        errors |-> validate_cryptocurrency(bad[j], now).errors,
                        data |-> bad[j]]]]

(***************************************************************************)
(* What the upstream providers answer.  A provider answers a fetch with a  *)
(* list of at most MaxBatch records; the records below stand for a record  *)
(* in its domain (two of them), a record with a field out of its domain    *)
(* (a price of 0), and a record last updated more than five minutes ago.   *)
(***************************************************************************)
\* longest list a provider answers with
MaxBatch == 2

CoinGeckoRecords(now) ==
    LET good == [id |-> Str("bitcoin"), symbol |-> Str("btc"),
                 name |-> Str("Bitcoin"),
                 current_price |-> FloatV(100000),
                 market_cap |-> Big("int", 5000, 0),
                 total_volume |-> IntV(7),
                 price_change_24h |-> FloatV(2500),
                 price_change_percentage_24h |-> FloatV(2500),
                 market_cap_rank |-> IntV(1),
                 last_updated |-> IsoString(now),
                 sparkline_in_7d |-> Sparkline("prices", <<IntV(10), IntV(11)>>)]
    IN <<good,
         [good EXCEPT !.id = Str("ethereum"), !.symbol = Str("eth"),
                      !.name = Str("Ethereum"),
                      !.market_cap = Big("int", 5, 0),
                      !.market_cap_rank = IntV(2),
                      !.price_change_percentage_24h = FloatV(-1500)],
         [good EXCEPT !.id = Str("dogecoin"), !.symbol = Str("doge"),
                      !.name = Str("Dogecoin"),
                      !.current_price = IntV(0), !.market_cap_rank = IntV(3),
                      !.sparkline_in_7d = Sparkline("absent", <<>>)]>>

CoinMarketCapRecords(now) ==
    LET good == [symbol |-> Str("BTC"), name |-> Str("Bitcoin"),
                 cmc_rank |-> IntV(1),
                 price |-> FloatV(100000),
                 market_cap |-> Big("int", 11000, 0),
                 volume_24h |-> IntV(7),
                 percent_change_24h |-> FloatV(2500),
                 last_updated |-> IsoString(now)]
    IN <<good,
         [good EXCEPT !.symbol = Str("ETH"), !.name = Str("Ethereum"),
                      !.market_cap = Big("int", 5, 0),
                      !.cmc_rank = IntV(2)],
         [good EXCEPT !.symbol = Str("DOGE"), !.name = Str("Dogecoin"),
                      !.cmc_rank = IntV(3),
                      !.last_updated = IsoString(now - 400)]>>

\* The canonical records handed to the filter: two in their domain, and one
\* for each way a record is malformed: a missing field, a field of the wrong
\* type, a timestamp more than five minutes old, a sparkline point whose
\* timestamp is text, and a timestamp parsed from text without an offset.
FilterRecords ==
    LET raw == CoinGeckoRecords(0)
        good == map_coingecko_response(raw[1], 0)
    IN {good,
        map_coingecko_response(raw[2], 0),
        [good EXCEPT !.id = Missing],
        [good EXCEPT !.id = Str("dogecoin"), !.currentPrice = Str("100.0")],
        [good EXCEPT !.id = Str("solana"), !.lastUpdated = DateTime(-301)],
        [good EXCEPT !.id = Str("cardano"),
                     !.sparklineData[1].timestamp = IsoString(0)],
        map_coingecko_response(
            [raw[1] EXCEPT !.id = Str("tether"),
                           !.last_updated = NaiveIsoString(0)], 0)}
FilterBatches == UNION {[1..k -> FilterRecords] : k \in 0..(MaxBatch + 1)}

\* The raw records handed to a mapper one at a time: a record of the
\* provider with market caps at and around the two thresholds (999 999 999,
\* 10^9, 10^10, 10^10 + 1, 10^10 + 0.5, 5 * 10^8), percentages above, at and
\* below zero and nan, and, for CoinGecko, every shape of sparkline_in_7d:
\* absent, null, an object without price, and price arrays of 0, 1 and 3.
MapInputs(provider) ==
    LET caps == {Big("int", 999, 999999000), Big("int", 1000, 0),
                 Big("int", 10000, 0), Big("int", 10000, 1000),
                 Big("float", 10000, 500), Big("int", 500, 0)}
        percents == {FloatV(2500), IntV(0), FloatV(-1500), NaN}
        sparklines == {Sparkline("absent", <<>>), Sparkline("null", <<>>),
                       Sparkline("object", <<>>), Sparkline("prices", <<>>),
                       Sparkline("prices", <<IntV(10)>>),
                       Sparkline("prices", <<IntV(10), IntV(11), IntV(12)>>)}
    IN IF provider = "primary"
       THEN {[CoinGeckoRecords(0)[1] EXCEPT
                 !.market_cap = c, !.price_change_percentage_24h = q,
                 !.sparkline_in_7d = sl] :
               c \in caps, q \in percents, sl \in sparklines}
       ELSE {[CoinMarketCapRecords(0)[1] EXCEPT
                 !.market_cap = c, !.percent_change_24h = q, !.price = x] :
               c \in caps, q \in percents, x \in {IntV(100), FloatV(2000)}}

\* The canonical records handed to the validator one at a time: a record in
\* its domain with, field by field, values in and out of the field's domain.
\* The sparkline is empty, of 1, 168 or 169 points in their domain, of 169
\* points the first with a price of 0, or of two points one of which has a
\* price of 0, nan or inf or a timestamp that is text.
ValidateRecords ==
    LET good == map_coingecko_response(CoinGeckoRecords(0)[1], 0)
        points(n) == map_sparkline_data([i \in 1..n |-> IntV(10)], 0)
        numbers == {FloatV(100000), IntV(0), NaN, PosInf}
        sparklines ==
            {<<>>, points(1), points(MaxSparklinePoints),
             points(MaxSparklinePoints + 1),
             [points(MaxSparklinePoints + 1) EXCEPT ![1].price = IntV(0)],
             [points(2) EXCEPT ![1].price = IntV(0)],
             [points(2) EXCEPT ![2].price = NaN],
             [points(2) EXCEPT ![2].price = PosInf],
             [points(2) EXCEPT ![1].timestamp = IsoString(0)]}
    IN {[good EXCEPT !.currentPrice = p, !.marketCap = c, !.volume24h = v,
                     !.priceChangePercent24h = q, !.lastUpdated = u,
                     !.sparklineData = sl, !.rank = r] :
          p \in numbers,
          c \in {Big("int", 5000, 0), FloatV(-1000), Val("inf", 0, -1, "")},
          v \in {IntV(0), FloatV(-1), NaN, PosInf},
          q \in {FloatV(-1500), NaN, PosInf},
          u \in {DateTime(-300), DateTime(-301), IsoString(0), NaiveDateTime(0)},
          sl \in sparklines,
          r \in {IntV(1), IntV(21)}}

\* the records of recs at the positions I, in the order of recs
Pick(recs, I) ==
    LET F[k \in 0..Len(recs)] ==
            IF k = 0 THEN <<>>
            ELSE IF k \in I THEN Append(F[k - 1], recs[k]) ELSE F[k - 1]
    IN F[Len(recs)]

\* the lists of at most n of the records, each once, by descending market
\* cap ('order': 'market_cap_desc')
RankedLists(recs, n) ==
    { Pick(recs, I) : I \in {J \in SUBSET DOMAIN recs : Cardinality(J) <= n} }

Sources == {"primary", "fallback"}

\* response.json() of CoinGecko /coins/markets, response.json()['data'] of
\* CoinMarketCap /cryptocurrency/listings/latest
Payloads(src, now) ==
    { [kind |-> "value", items |-> q] :
        q \in RankedLists(IF src = "primary" THEN CoinGeckoRecords(now)
                          ELSE CoinMarketCapRecords(now), MaxBatch) }

(***************************************************************************)
(* State.                                                                  *)
(***************************************************************************)
VARIABLES
    \* backoff executor: one call of the wrapper built by retry_with_backoff
    max_attempts,          \* the retry budget N of the decorator
    base_delay,            \* base delay d, in milliseconds
    retryable_exceptions,  \* the classes of the except clause
    source,                \* the source client whose fetch is wrapped
    pc,                    \* "ready" (loop head), "awaiting" (func in flight),
                           \* "sleeping" (backoff sleep in flight), "done"
    attempt,               \* the loop variable
    last_exception,        \* the wrapper's last_exception
    outcome,               \* how the wrapper call ended
    events,                \* history: the invocations and sleeps of this call
    outcomes,              \* history: how each invocation ended
    \* environment
    now,                   \* the clock, in seconds
    redis_client,          \* redis_client._redis_client: "None" or "client"
    redis_up,              \* the Redis server answers
    store,                 \* the Redis keyspace: key -> entry
    \* orchestrator: one request for the top list at a time
    stage,                 \* the state of the request's state machine
    requests,              \* requests begun so far
    req,                   \* the request's record: what it did and got
    \* library calls made outside a request (cache service, validator)
    calls                  \* the calls in flight and the last one finished

execVars == <<max_attempts, base_delay, retryable_exceptions, source, pc,
              attempt, last_exception, outcome, events, outcomes>>
envVars == <<now, redis_client, redis_up, store>>
orchVars == <<stage, requests, req>>
vars == <<execVars, envVars, orchVars, calls>>

(***************************************************************************)
(* Backoff executor: retry_with_backoff(...)(func), one step per           *)
(* suspension point of the wrapper.                                        *)
(***************************************************************************)
CallEvent(k) == [ev |-> "call", arg |-> k]
SleepEvent(ms) == [ev |-> "sleep", arg |-> ms]
Returned(r) == [ok |-> TRUE, result |-> r, exc |-> NoExc]
Failed(e) == [ok |-> FALSE, result |-> NoResult, exc |-> e]

Executing == stage \in {"Executor", "PrimaryFetch", "FallbackFetch", "Probe"}

\* A new wrapper call: last_exception = None, the loop at attempt 0.
ExecReset(n, d, excs, src) ==
    /\ max_attempts' = n
    /\ base_delay' = d
    /\ retryable_exceptions' = excs
    /\ source' = src
    /\ pc' = "ready"
    /\ attempt' = 0
    /\ last_exception' = NoExc
    /\ outcome' = Running
    /\ events' = <<>>
    /\ outcomes' = <<>>

\* No wrapper call in flight any more.
ExecClear ==
    /\ max_attempts' = ApiCallMaxAttempts
    /\ base_delay' = ApiCallBaseDelayMs
    /\ retryable_exceptions' = ApiCallRetryableExceptions
    /\ source' = "primary"
    /\ pc' = "done"
    /\ attempt' = 0
    /\ last_exception' = NoExc
    /\ outcome' = Running
    /\ events' = <<>>
    /\ outcomes' = <<>>

\* The head of "for attempt in range(max_attempts)": the next iteration
\* invokes func; once the range is over, the statements after the loop run
\* (assert last_exception is not None; raise RetryExhausted(...)).
LoopHead ==
    /\ Executing /\ pc = "ready"
    /\ IF InRange(attempt, max_attempts)
       THEN /\ events' = Append(events, CallEvent(attempt))
            /\ pc' = "awaiting"
            /\ UNCHANGED outcome
       ELSE /\ outcome' = IF last_exception = NoExc THEN AssertionOutcome
                          ELSE ExhaustedOutcome(max_attempts, last_exception)
            /\ pc' = "done"
            /\ UNCHANGED events
    /\ UNCHANGED <<max_attempts, base_delay, retryable_exceptions, source,
                   attempt, last_exception, outcomes>>
    /\ UNCHANGED <<envVars, orchVars, calls>>

\* func returns: result = await func(...); return cast(T, result)
AttemptReturns ==
    /\ Executing /\ pc = "awaiting"
    /\ \E r \in Payloads(source, now) :
          /\ outcomes' = Append(outcomes, Returned(r))
          /\ outcome' = ReturnOutcome(r)
    /\ pc' = "done"
    /\ UNCHANGED <<max_attempts, base_delay, retryable_exceptions, source,
                   attempt, last_exception, events>>
    /\ UNCHANGED <<envVars, orchVars, calls>>

\* func raises e: the except clause, up to the raise or to the sleep.
AttemptRaises ==
    /\ Executing /\ pc = "awaiting"
    /\ \E e \in (IF stage = "Executor" THEN OperationFailures ELSE RequestFailures) :
          /\ outcomes' = Append(outcomes, Failed(e))
          /\ IF ~IsInstance(e, retryable_exceptions)
             THEN /\ outcome' = ReraiseOutcome(e)
                  /\ pc' = "done"
                  /\ UNCHANGED <<last_exception, events>>
             ELSE /\ last_exception' = e
                  /\ IF ~is_retryable_error(e)
                     THEN /\ outcome' = ReraiseOutcome(e)
                          /\ pc' = "done"
                          /\ UNCHANGED events
                     ELSE IF IsLastAttempt(attempt, max_attempts)
                     THEN /\ outcome' = ExhaustedOutcome(max_attempts, e)
                          /\ pc' = "done"
                          /\ UNCHANGED events
                     ELSE /\ events' = Append(events,
                                 SleepEvent(BackoffDelay(attempt, base_delay)))
                          /\ pc' = "sleeping"
                          /\ UNCHANGED outcome
    /\ UNCHANGED <<max_attempts, base_delay, retryable_exceptions, source, attempt>>
    /\ UNCHANGED <<envVars, orchVars, calls>>

\* asyncio.sleep(delay) returns: the next iteration of the loop
SleepReturns ==
    /\ Executing /\ pc = "sleeping"
    /\ attempt' = attempt + 1
    /\ pc' = "ready"
    /\ UNCHANGED <<max_attempts, base_delay, retryable_exceptions, source,
                   last_exception, outcome, events, outcomes>>
    /\ UNCHANGED <<envVars, orchVars, calls>>

ExecNext == LoopHead \/ AttemptReturns \/ AttemptRaises \/ SleepReturns

\* asyncio.CancelledError, thrown into the wrapper at the await it is
\* suspended in when the task of the request is cancelled
Cancellation == Exc("CancelledError", 0)

\* A faulty ExceptClause, for sensitivity runs: the clause catches every exception and retries it.
ExceptClause_CatchesAll(e, excs, k, n) ==
    IF IsLastAttempt(k, n) THEN "exhausted" ELSE "sleep"

\* What the try statement of the wrapper does with e raised by
\* "await func(...)" at attempt k of n: "except retryable_exceptions as e",
\* "if not is_retryable_error(e): raise", "if attempt == max_attempts - 1".
ExceptClause(e, excs, k, n) ==
    IF ~IsInstance(e, excs) THEN "propagate"
    ELSE IF ~is_retryable_error(e) THEN "reraise"
    ELSE IF IsLastAttempt(k, n) THEN "exhausted"
    ELSE "sleep"

\* The request is cancelled while the wrapper is suspended: CancelledError
\* is raised by "await func(...)" inside the try block, or by
\* "await asyncio.sleep(delay)" inside the except clause.
Cancel ==
    /\ stage = "Executor" /\ pc \in {"awaiting", "sleeping"}
    /\ LET e == Cancellation
           does == IF pc = "sleeping" THEN "propagate"
                   ELSE ExceptClause(e, retryable_exceptions, attempt,
                                     max_attempts)
           seen == Append(events, [ev |-> "cancel", arg |-> attempt])
       IN /\ outcomes' = IF pc = "awaiting" THEN Append(outcomes, Failed(e))
                         ELSE outcomes
          /\ last_exception' = IF does = "propagate" THEN last_exception
                               ELSE e
          /\ outcome' = CASE does \in {"propagate", "reraise"} ->
                                ReraiseOutcome(e)
                          [] does = "exhausted" ->
                                ExhaustedOutcome(max_attempts, e)
                          [] OTHER -> outcome
          /\ pc' = IF does = "sleep" THEN "sleeping" ELSE "done"
          /\ events' = IF does = "sleep"
                       THEN Append(seen, SleepEvent(BackoffDelay(attempt,
                                                                 base_delay)))
                       ELSE seen
    /\ UNCHANGED <<max_attempts, base_delay, retryable_exceptions, source, attempt>>
    /\ UNCHANGED <<envVars, orchVars, calls>>

(***************************************************************************)
(* Cache store: CacheService over the process-wide Redis client.           *)
(***************************************************************************)
\* key = 'crypto:list:top20'
TopListKey == "crypto:list:top20"
\* key = f'crypto:sparkline:{crypto_id}' of one coin
SparklineKey == "crypto:sparkline:bitcoin"
Keys == {TopListKey, SparklineKey}

\* self.default_ttl = int(os.getenv('CACHE_TTL_SECONDS', '300'))
DefaultTtl == 300
\* self.sparkline_ttl = 3600
SparklineTtl == 3600

Entry(value, expires) == [present |-> TRUE, value |-> value, expires |-> expires]
NoEntry == [present |-> FALSE, value |-> <<>>, expires |-> 0]

\* Redis keeps an entry written by SETEX until its expiry
Live(e, t) == e.present /\ t < e.expires

\* obj.isoformat()
IsoFormat(v) == IF v.s = "naive" THEN NaiveIsoString(v.n) ELSE IsoString(v.n)

\* the values json.dumps encodes itself, without calling default
JsonNative(v) == v.t \in {"int", "float", "nan", "inf", "none", "missing", "str"}

\* A faulty JsonSerializerRaises, for sensitivity runs: no object is refused.
JsonSerializerRaises_Never(v) == FALSE

\* _json_serializer(obj) raises TypeError: obj is not a datetime
JsonSerializerRaises(v) == ~IsDateTime(v)

\* _json_serializer(obj) for a datetime: obj.isoformat()
json_serializer(v) == IF IsDateTime(v) THEN IsoFormat(v) ELSE v

\* json.dumps(data, default=_json_serializer) of a list of records or of
\* sparkline points, as the JSON document it writes: every datetime becomes
\* its ISO-8601 string
JsonDumpsPoint(p) == [p EXCEPT !.timestamp = json_serializer(p.timestamp)]
JsonDumpsRecord(r) ==
    [r EXCEPT !.lastUpdated = json_serializer(r.lastUpdated),
              !.sparklineData = [j \in 1..Len(r.sparklineData) |->
                                    JsonDumpsPoint(r.sparklineData[j])]]
IsPoint(x) == DOMAIN x = {"timestamp", "price"}
JsonDumps(batch) ==
    [i \in 1..Len(batch) |->
        IF IsPoint(batch[i]) THEN JsonDumpsPoint(batch[i])
        ELSE JsonDumpsRecord(batch[i])]

\* json.dumps(data, default=_json_serializer) raises TypeError: a member is
\* neither a JSON value nor a datetime
MemberValues(x) ==
    IF IsPoint(x) THEN {x.timestamp, x.price}
    ELSE {x[f] : f \in DOMAIN x \ {"sparklineData"}}
         \cup UNION {{x.sparklineData[j].timestamp, x.sparklineData[j].price} :
                        j \in 1..Len(x.sparklineData)}
JsonDumpsRaises(batch) ==
    \E i \in 1..Len(batch) : \E v \in MemberValues(batch[i]) :
        ~JsonNative(v) /\ JsonSerializerRaises(v)

\* a stored value that is no JSON document
Undecodable == <<[undecodable |-> TRUE]>>
\* json.loads(value) raises json.JSONDecodeError
JsonLoadsRaises(doc) == doc = Undecodable

\* json.loads(value): the document's lists, objects, numbers and strings
JsonLoads(doc) == doc

\* get_redis_client() raises RuntimeError
GetClientRaises(client) == client = "None"

\* A faulty get_json, for sensitivity runs: an exception is answered with an empty list, not None.
get_json_EmptyOnError(key, client, up, st, t) ==
    IF client = "None" THEN [hit |-> TRUE, value |-> <<>>]
    ELSE IF ~up THEN [hit |-> TRUE, value |-> <<>>]
    ELSE IF ~(st[key].present /\ t < st[key].expires)
         THEN [hit |-> FALSE, value |-> <<>>]
    ELSE IF st[key].value = <<[undecodable |-> TRUE]>>
         THEN [hit |-> TRUE, value |-> <<>>]
    ELSE [hit |-> TRUE, value |-> st[key].value]

\* CacheService._get_json(key): None on a miss and on every exception
CacheMiss == [hit |-> FALSE, value |-> <<>>]
get_json(key, client, up, st, t) ==
    IF GetClientRaises(client) THEN CacheMiss
    ELSE IF ~up THEN CacheMiss
    ELSE IF ~Live(st[key], t) THEN CacheMiss
    ELSE IF JsonLoadsRaises(st[key].value) THEN CacheMiss
    ELSE [hit |-> TRUE, value |-> JsonLoads(st[key].value)]

\* A faulty set_json, for sensitivity runs: the new members are written after
\* those of a live entry, which keeps its expiry.
set_json_Merges(key, data, ttl, client, up, st, t) ==
    IF client = "None" \/ JsonDumpsRaises(data) \/ ~up THEN st
    ELSE IF st[key].present /\ t < st[key].expires
    THEN [st EXCEPT ![key].value = @ \o JsonDumps(data)]
    ELSE [st EXCEPT ![key] = Entry(JsonDumps(data), t + ttl)]

\* CacheService._set_json(key, data, ttl): the keyspace after the call
set_json(key, data, ttl, client, up, st, t) ==
    IF GetClientRaises(client) THEN st
    ELSE IF JsonDumpsRaises(data) THEN st
    ELSE IF ~up THEN st
    ELSE [st EXCEPT ![key] = Entry(JsonDumps(data), t + ttl)]

\* ttl or self.default_ttl
TtlOr(ttl, default) == IF ttl = 0 THEN default ELSE ttl

(***************************************************************************)
(* Calls of the cache service by concurrent tasks.  A get is one Redis     *)
(* command; a set serialises its data when called and its SETEX command    *)
(* runs at the server later.                                               *)
(***************************************************************************)
Tasks == {"a", "b"}

\* the kinds of entry: get_/set_top_cryptocurrencies, _gainers, _losers,
\* _cryptocurrency_details, _sparkline
SnapshotKinds == {"top", "gainers", "losers", "details"}
CacheKinds == SnapshotKinds \cup {"sparkline"}
KindKey(kind) ==
    CASE kind = "top" -> TopListKey
      [] kind = "gainers" -> "crypto:gainers:top20"
      [] kind = "losers" -> "crypto:losers:top20"
      [] kind = "details" -> "crypto:details:bitcoin"
      [] kind = "sparkline" -> SparklineKey
\* A faulty KindTtl, for sensitivity runs: one default for every kind.
KindTtl_OneDefault(kind, ttl) == TtlOr(ttl, DefaultTtl)

\* ttl or self.default_ttl; for a sparkline, ttl or self.sparkline_ttl
KindTtl(kind, ttl) ==
    TtlOr(ttl, IF kind = "sparkline" THEN SparklineTtl ELSE DefaultTtl)
\* the kinds whose key the model's keyspace holds
StoredKinds == {k \in CacheKinds : KindKey(k) \in Keys}
\* the ttl argument: None (0 here) or a number of seconds
TtlArgs == {0, 60}

\* The data handed to a set: canonical batches, one with a member json
\* cannot encode; lists of sparkline points, one with such a member.
BatchA == <<map_coingecko_response(CoinGeckoRecords(0)[1], 0)>>
BatchB == <<map_coinmarketcap_response(CoinMarketCapRecords(0)[2])>>
BatchU == <<[BatchA[1] EXCEPT !.volume24h = Object]>>
PointsA == map_sparkline_data(<<IntV(10)>>, 0)
PointsB == map_sparkline_data(<<IntV(11), IntV(12)>>, 0)
PointsU == <<[timestamp |-> DateTime(0), price |-> Object]>>
SetValues(kind) ==
    IF kind = "sparkline" THEN {PointsA, PointsB, PointsU}
    ELSE {BatchA, BatchB, BatchU}

\* The exception raised inside the try block of _get_json and of _set_json
\* ("none": none).
GetFailure(key, client, up, st, t) ==
    IF GetClientRaises(client) THEN "RuntimeError"
    ELSE IF ~up THEN "ConnectionError"
    ELSE IF Live(st[key], t) /\ JsonLoadsRaises(st[key].value)
         THEN "JSONDecodeError"
    ELSE "none"
SetFailure(data, client, up) ==
    IF GetClientRaises(client) THEN "RuntimeError"
    ELSE IF JsonDumpsRaises(data) THEN "TypeError"
    ELSE IF ~up THEN "ConnectionError"
    ELSE "none"

\* A faulty CaughtByExcept, for sensitivity runs: only Redis errors are caught.
CaughtByExcept_RedisErrorsOnly(e) == e = "ConnectionError"

\* A faulty CaughtByExcept, for sensitivity runs: connection errors escape.
CaughtByExcept_NotConnectionErrors(e) ==
    e \in {"RuntimeError", "JSONDecodeError", "TypeError"}

\* except Exception as e: the exceptions of the try block it catches
CaughtByExcept(e) ==
    e \in {"RuntimeError", "ConnectionError", "JSONDecodeError", "TypeError"}

\* how _get_json / _set_json ends when its try block raised e
CallOutcome(e) ==
    IF e = "none" \/ CaughtByExcept(e) THEN "returned" ELSE "raised"

\* What a finished call did: how it ended, the exception of its try block,
\* what a get returned (hit: not None) and the data a set was given.
CallResult(op, ends, failure, hit, value, data) ==
    [op |-> op, outcome |-> ends, failure |-> failure,
     hit |-> hit, value |-> value, data |-> data]
NoCallYet == CallResult("none", "none", "none", FALSE, <<>>, <<>>)

IdleTask ==
    [pc |-> "idle", kind |-> "top", data |-> <<>>, ttl |-> 0, overtaken |-> FALSE]
\* the last SETEX the server ran on a key: its data, its ttl, the clock, and
\* whether another SETEX ran on the key while this set was in flight
NoWriter == [set |-> FALSE, data |-> <<>>, ttl |-> 0, at |-> 0, raced |-> FALSE]
Writer(data, ttl, at, raced) ==
    [set |-> TRUE, data |-> data, ttl |-> ttl, at |-> at, raced |-> raced]
\* no call of init_redis_pool, close_redis_pool or get_redis_client yet
NoPool == [log |-> <<>>, got |-> "none"]
\* no call of the typed methods, of delete or of clear_all yet
NoKeyspace ==
    [ops |-> 0, pc |-> "idle", todo |-> <<>>, key |-> "",
     before |-> <<>>, concurrent |-> FALSE, failed |-> FALSE,
     top |-> [set |-> FALSE, data |-> <<>>, flag |-> FALSE]]
\* health_check() not called: its position and its locals
NoHealth ==
    [pc |-> "idle", outcome |-> "none",
     redis_connected |-> FALSE, redis_latency |-> -1,
     coingecko_available |-> FALSE, coinmarketcap_available |-> FALSE,
     probes |-> <<>>, response |-> <<>>]
\* no call made yet
NoCalls ==
    [kind |-> "top", ttl |-> 0,
     pending |-> [t \in Tasks |-> IdleTask],
     last |-> NoCallYet,
     writer |-> [k \in Keys |-> NoWriter],
     health |-> NoHealth,
     ks |-> NoKeyspace,
     pool |-> NoPool]
\* no task has a command in flight
NoPendingCall == \A t \in Tasks : calls.pending[t].pc = "idle"

(***************************************************************************)
(* Environment: the clock, the Redis server and the lifecycle of the       *)
(* process-wide client (redis_client.py).                                  *)
(***************************************************************************)
\* number of clock steps explored
MaxTicks == 2
ClockSteps == {200}
\* between and during calls of the cache service: half the lifetime of an
\* entry of the kind, so that the clock reads within, at and beyond an expiry
CacheClockSteps(kind) == {KindTtl(kind, 0) \div 2}
\* requests explored
MaxRequests == 2

\* The Redis server is used at the cache lookup and at the cache write: it
\* fails and recovers between requests and between the two.
EnvMayAct == stage \in {"Idle", "CacheWrite", "Cache", "Keyspace", "Pool"}

\* Time passes between requests, and between and during cache calls.
Tick ==
    /\ stage \in {"Idle", "Cache"}
    /\ \E d \in (IF stage = "Cache" THEN CacheClockSteps(calls.kind)
                ELSE ClockSteps) :
          /\ now + d <= MaxTicks * d
          /\ now' = now + d
    /\ UNCHANGED <<redis_client, redis_up, store, execVars, orchVars, calls>>

RedisFails ==
    /\ EnvMayAct /\ redis_up
    /\ redis_up' = FALSE
    /\ UNCHANGED <<now, redis_client, store, execVars, orchVars, calls>>

RedisRecovers ==
    /\ EnvMayAct /\ ~redis_up
    /\ redis_up' = TRUE
    /\ UNCHANGED <<now, redis_client, store, execVars, orchVars, calls>>

\* init_redis_pool(): the globals are assigned before the connectivity check
\* (await _redis_client.ping()), whose failure leaves them assigned
init_redis_pool ==
    /\ (stage = "Idle" /\ requests = 0) \/ stage = "Cache"
    /\ redis_client = "None"
    /\ redis_client' = "client"
    /\ UNCHANGED <<now, redis_up, store, execVars, orchVars, calls>>

\* close_redis_pool(), at shutdown
close_redis_pool ==
    /\ (stage = "Idle" /\ requests > 0) \/ (stage = "Cache" /\ NoPendingCall)
    /\ redis_client = "client"
    /\ redis_client' = "None"
    /\ UNCHANGED <<now, redis_up, store, execVars, orchVars, calls>>

EnvNext == Tick \/ RedisFails \/ RedisRecovers \/ init_redis_pool \/ close_redis_pool

(***************************************************************************)
(* Caller-visible outcomes (error_handling.py, main.py).                   *)
(***************************************************************************)
Response(kind, items, status, code, message) ==
    [kind |-> kind, items |-> items, status |-> status, code |-> code,
     message |-> message]
NoResponse == Response("none", <<>>, 0, "", "")
BatchResponse(items) == Response("batch", items, 200, "", "")

\* A faulty ExternalAPIError, for sensitivity runs: the code and message of another APIError.
ExternalAPIError_AsCacheError ==
    Response("unavailable", <<>>, 500, "CACHE_ERROR",
             "Cache service temporarily unavailable.")

\* ExternalAPIError(): APIError with HTTP_500_INTERNAL_SERVER_ERROR, the code
\* 'EXTERNAL_API_FAILURE' and the default message
ExternalAPIError ==
    Response("unavailable", <<>>, 500, "EXTERNAL_API_FAILURE",
             "External API unavailable. Please try again later.")

\* global_exception_handler: any other exception that leaves a request
InternalServerError ==
    Response("error", <<>>, 500, "INTERNAL_SERVER_ERROR",
             "An unexpected error occurred. Please try again later.")

(***************************************************************************)
(* Orchestrator: the cache-aside request with the fallback chain, for the  *)
(* top list.  One step per stage of its state machine.                     *)
(***************************************************************************)
NewRequest(st) ==
    [cache |-> "none", cached |-> <<>>,
     primary_runs |-> 0, fallback_runs |-> 0,
     primary_log |-> <<>>, fallback_log |-> <<>>,
     primary_end |-> Running, fallback_end |-> Running,
     provider |-> "none", raw |-> <<>>, normalized |-> <<>>,
     validations |-> 0, valid |-> <<>>, rejected |-> <<>>,
     writes |-> <<>>, store_before |-> st,
     response |-> NoResponse]

\* No wrapper call in flight.
IdleExec ==
    /\ max_attempts = ApiCallMaxAttempts
    /\ base_delay = ApiCallBaseDelayMs
    /\ retryable_exceptions = ApiCallRetryableExceptions
    /\ source = "primary"
    /\ pc = "done"
    /\ attempt = 0
    /\ last_exception = NoExc
    /\ outcome = Running
    /\ events = <<>>
    /\ outcomes = <<>>

BeginRequest ==
    /\ stage = "Idle" /\ requests < MaxRequests
    /\ requests' = requests + 1
    /\ req' = NewRequest(store)
    /\ stage' = "CacheLookup"
    /\ UNCHANGED <<execVars, envVars, calls>>

\* CacheLookup: a hit is returned at once; a miss starts the primary fetch
\* through the executor (retry_api_call).  An exception leaving the get
\* would leave the request.
CacheLookup ==
    /\ stage = "CacheLookup"
    /\ LET got == get_json(TopListKey, redis_client, redis_up, store, now)
           e == GetFailure(TopListKey, redis_client, redis_up, store, now)
       IN IF CallOutcome(e) = "raised"
          THEN /\ req' = [req EXCEPT !.cache = "raised",
                                     !.response = InternalServerError]
               /\ stage' = "Done"
               /\ UNCHANGED execVars
          ELSE IF got.hit
          THEN /\ req' = [req EXCEPT !.cache = "hit", !.cached = got.value,
                                     !.response = BatchResponse(got.value)]
               /\ stage' = "Done"
               /\ UNCHANGED execVars
          ELSE /\ req' = [req EXCEPT !.cache = "miss", !.primary_runs = @ + 1]
               /\ stage' = "PrimaryFetch"
               /\ ExecReset(ApiCallMaxAttempts, ApiCallBaseDelayMs,
                            ApiCallRetryableExceptions, "primary")
    /\ UNCHANGED <<envVars, requests, calls>>

\* PrimaryFetch ends: success goes to Normalize, any failure to FallbackFetch.
PrimaryFetchEnds ==
    /\ stage = "PrimaryFetch" /\ pc = "done"
    /\ IF outcome.kind = "returned"
       THEN /\ req' = [req EXCEPT !.primary_log = outcomes, !.primary_end = outcome,
                                  !.provider = "primary",
                                  !.raw = outcome.result.items]
            /\ stage' = "Normalize"
            /\ UNCHANGED execVars
       ELSE /\ req' = [req EXCEPT !.primary_log = outcomes, !.primary_end = outcome,
                                  !.fallback_runs = @ + 1]
            /\ stage' = "FallbackFetch"
            /\ ExecReset(ApiCallMaxAttempts, ApiCallBaseDelayMs,
                         ApiCallRetryableExceptions, "fallback")
    /\ UNCHANGED <<envVars, requests, calls>>

\* FallbackFetch ends: success goes to Normalize, failure ends the request
\* (both sources unavailable).
FallbackFetchEnds ==
    /\ stage = "FallbackFetch" /\ pc = "done"
    /\ IF outcome.kind = "returned"
       THEN /\ req' = [req EXCEPT !.fallback_log = outcomes,
                                  !.fallback_end = outcome,
                                  !.provider = "fallback",
                                  !.raw = outcome.result.items]
            /\ stage' = "Normalize"
       ELSE /\ req' = [req EXCEPT !.fallback_log = outcomes,
                                  !.fallback_end = outcome,
                                  !.response = ExternalAPIError]
            /\ stage' = "Done"
    /\ UNCHANGED <<execVars, envVars, requests, calls>>

MapperRaises(provider, raw) ==
    IF provider = "primary" THEN CoinGeckoMapperRaises(raw)
    ELSE CoinMarketCapMapperRaises(raw)
MapRecord(provider, raw, t) ==
    IF provider = "primary" THEN map_coingecko_response(raw, t)
    ELSE map_coinmarketcap_response(raw)

\* Normalize: the provider's mapper on every record of the payload; an
\* exception of the mapper leaves the request.
Normalize ==
    /\ stage = "Normalize"
    /\ IF \E i \in 1..Len(req.raw) : MapperRaises(req.provider, req.raw[i])
       THEN /\ req' = [req EXCEPT !.response = InternalServerError]
            /\ stage' = "Done"
       ELSE /\ req' = [req EXCEPT !.normalized =
                          [i \in 1..Len(req.raw) |->
                              MapRecord(req.provider, req.raw[i], now)]]
            /\ stage' = "ValidateFilter"
    /\ UNCHANGED <<execVars, envVars, requests, calls>>

\* ValidateFilter: an empty valid subset is the failure of both sources.  An
\* exception leaving the filter would leave the request.
ValidateFilter ==
    /\ stage = "ValidateFilter"
    /\ LET f == filter_valid_cryptocurrencies(req.normalized, now)
       IN IF FilterRaises(req.normalized)
          THEN /\ req' = [req EXCEPT !.validations = @ + 1,
                                     !.response = InternalServerError]
               /\ stage' = "Done"
          ELSE IF Len(f.valid) = 0
          THEN /\ req' = [req EXCEPT !.validations = @ + 1, !.valid = f.valid,
                                     !.rejected = f.invalid,
                                     !.response = ExternalAPIError]
               /\ stage' = "Done"
          ELSE /\ req' = [req EXCEPT !.validations = @ + 1, !.valid = f.valid,
                                     !.rejected = f.invalid]
               /\ stage' = "CacheWrite"
    /\ UNCHANGED <<execVars, envVars, requests, calls>>

\* CacheWrite: set_top_cryptocurrencies(valid), best effort.  An exception
\* leaving the set would leave the request.
CacheWrite ==
    /\ stage = "CacheWrite"
    /\ store' = set_json(TopListKey, req.valid, TtlOr(0, DefaultTtl),
                         redis_client, redis_up, store, now)
    /\ LET e == SetFailure(req.valid, redis_client, redis_up)
       IN IF CallOutcome(e) = "raised"
          THEN /\ req' = [req EXCEPT
                             !.writes = Append(@, [key |-> TopListKey,
                                                   value |-> req.valid,
                                                   outcome |-> "raised"]),
                             !.response = InternalServerError]
               /\ stage' = "Done"
          ELSE /\ req' = [req EXCEPT
                             !.writes = Append(@, [key |-> TopListKey,
                                                   value |-> req.valid,
                                                   outcome |-> "returned"])]
               /\ stage' = "Return"
    /\ UNCHANGED <<execVars, now, redis_client, redis_up, requests, calls>>

\* Return: the valid batch.
Return ==
    /\ stage = "Return"
    /\ req' = [req EXCEPT !.response = BatchResponse(req.valid)]
    /\ stage' = "Done"
    /\ UNCHANGED <<execVars, envVars, requests, calls>>

\* The response has been sent: nothing of the request is kept.
EndRequest ==
    /\ stage = "Done"
    /\ req' = NewRequest(store)
    /\ stage' = "Idle"
    /\ ExecClear
    /\ UNCHANGED <<envVars, requests, calls>>

OrchNext ==
    \/ BeginRequest \/ CacheLookup \/ PrimaryFetchEnds \/ FallbackFetchEnds
    \/ Normalize \/ ValidateFilter \/ CacheWrite \/ Return \/ EndRequest

(***************************************************************************)
(* Specifications.                                                         *)
(***************************************************************************)
EmptyStore == [k \in Keys |-> NoEntry]

\* The process after start-up: no request yet, an empty cache, the Redis
\* client not yet initialised.
Init ==
    /\ IdleExec
    /\ now = 0
    /\ redis_client = "None"
    /\ redis_up = TRUE
    /\ store = EmptyStore
    /\ stage = "Idle"
    /\ requests = 0
    /\ req = NewRequest(EmptyStore)
    /\ calls = NoCalls

Next == ExecNext \/ EnvNext \/ OrchNext

Spec == Init /\ [][Next]_vars

\* The executor alone: one call of a wrapper built with any budget in
\* 0..MaxAttempts, any of the base delays and either tuple of exceptions.
InitRetry ==
    /\ max_attempts \in 0..MaxAttempts
    /\ base_delay \in BaseDelays
    /\ retryable_exceptions \in ExceptionTuples
    /\ source \in Sources
    /\ pc = "ready"
    /\ attempt = 0
    /\ last_exception = NoExc
    /\ outcome = Running
    /\ events = <<>>
    /\ outcomes = <<>>
    /\ now = 0
    /\ redis_client = "None"
    /\ redis_up = TRUE
    /\ store = EmptyStore
    /\ stage = "Executor"
    /\ requests = 0
    /\ req = NewRequest(EmptyStore)
    /\ calls = NoCalls

SpecRetry == InitRetry /\ [][ExecNext]_vars

\* The executor alone, in a request that may be cancelled at any await.
SpecCancel == InitRetry /\ [][ExecNext \/ Cancel]_vars

\* A task calls get_<kind>(): _get_json(key), one GET command.
CacheGet ==
    /\ stage = "Cache"
    /\ \E t \in Tasks :
          /\ calls.pending[t].pc = "idle"
          /\ LET key == KindKey(calls.kind)
                 got == get_json(key, redis_client, redis_up, store, now)
                 e == GetFailure(key, redis_client, redis_up, store, now)
             IN calls' = [calls EXCEPT !.last =
                            CallResult("get", CallOutcome(e), e,
                                       got.hit, got.value, <<>>)]
    /\ UNCHANGED <<execVars, envVars, orchVars>>

\* A task calls set_<kind>(data, calls.ttl): _set_json(key, data, ttl or default)
\* up to its await: the client is fetched and the data serialised; a
\* failure of either ends the call.
CacheSetBegins ==
    /\ stage = "Cache"
    /\ \E t \in Tasks, data \in SetValues(calls.kind) :
          /\ calls.pending[t].pc = "idle"
          /\ LET e == SetFailure(data, redis_client, TRUE)
             IN IF e # "none"
                THEN calls' = [calls EXCEPT !.last =
                                 CallResult("set", CallOutcome(e), e,
                                            FALSE, <<>>, data)]
                ELSE calls' = [calls EXCEPT !.pending[t] =
                                 [pc |-> "setex", kind |-> calls.kind,
                                  data |-> data, ttl |-> calls.ttl,
                                  overtaken |-> FALSE]]
    /\ UNCHANGED <<execVars, envVars, orchVars>>

\* await client.setex(key, ttl, value): the server runs the command, or the
\* connection fails; either way the call returns.
SetexCompletes ==
    /\ stage = "Cache"
    /\ \E t \in Tasks :
          /\ calls.pending[t].pc = "setex"
          /\ LET c == calls.pending[t]
                 key == KindKey(c.kind)
                 ttl == KindTtl(c.kind, c.ttl)
                 e == SetFailure(c.data, "client", redis_up)
             IN /\ store' = set_json(key, c.data, ttl, "client", redis_up,
                                     store, now)
                /\ calls' = [calls EXCEPT
                       !.pending = [u \in Tasks |->
                           IF u = t THEN IdleTask
                           ELSE IF e = "none" /\ @[u].pc = "setex"
                                THEN [@[u] EXCEPT !.overtaken = TRUE]
                           ELSE @[u]],
                       !.last = CallResult("set", CallOutcome(e), e,
                                           FALSE, <<>>, c.data),
                       !.writer[key] =
                           IF e = "none"
                           THEN Writer(c.data, ttl, now, c.overtaken)
                           ELSE @]
    /\ UNCHANGED <<execVars, now, redis_client, redis_up, orchVars>>

CacheNext ==
    \/ CacheGet \/ CacheSetBegins \/ SetexCompletes
    \/ Tick \/ RedisFails \/ RedisRecovers \/ init_redis_pool \/ close_redis_pool

\* The cache service alone, called by the tasks for entries of one kind and
\* with one ttl argument: the client initialised or not, the server up or
\* down, the key absent or holding a value that is no JSON document.
InitCache ==
    /\ IdleExec
    /\ now = 0
    /\ redis_client \in {"None", "client"}
    /\ redis_up \in BOOLEAN
    /\ \E kind \in StoredKinds, ttl \in TtlArgs :
          /\ calls = [NoCalls EXCEPT !.kind = kind, !.ttl = ttl]
          /\ store \in {EmptyStore,
                         [EmptyStore EXCEPT ![KindKey(kind)] =
                             Entry(Undecodable, KindTtl(kind, 0))]}
    /\ stage = "Cache"
    /\ requests = 0
    /\ req = NewRequest(EmptyStore)

SpecCache == InitCache /\ [][CacheNext]_vars

(***************************************************************************)
(* The lifecycle of the process-wide client: any sequence of               *)
(* init_redis_pool(), close_redis_pool() and get_redis_client().           *)
(***************************************************************************)
\* calls of the three functions explored in one behaviour
MaxPoolCalls == 4

\* init_redis_pool(): _redis_pool and _redis_client are assigned, then
\* "await _redis_client.ping()" returns or raises
PoolInit ==
    /\ stage = "Pool" /\ Len(calls.pool.log) < MaxPoolCalls
    /\ redis_client' = "client"
    /\ calls' = [calls EXCEPT !.pool.log =
                    Append(@, IF redis_up THEN "init returned"
                              ELSE "init raised")]
    /\ UNCHANGED <<now, redis_up, store, execVars, orchVars>>

\* close_redis_pool(): if _redis_client: await _redis_client.close();
\* _redis_client = None
PoolClose ==
    /\ stage = "Pool" /\ Len(calls.pool.log) < MaxPoolCalls
    /\ redis_client' = "None"
    /\ calls' = [calls EXCEPT !.pool.log = Append(@, "close")]
    /\ UNCHANGED <<now, redis_up, store, execVars, orchVars>>

\* get_redis_client(): RuntimeError if _redis_client is None
PoolGet ==
    /\ stage = "Pool" /\ Len(calls.pool.log) < MaxPoolCalls
    /\ calls' = [calls EXCEPT
          !.pool.log = Append(@, "get"),
          !.pool.got = IF GetClientRaises(redis_client) THEN "RuntimeError"
                       ELSE redis_client]
    /\ UNCHANGED <<execVars, envVars, orchVars>>

\* The module just imported: _redis_pool and _redis_client are None.
InitPool ==
    /\ IdleExec
    /\ now = 0
    /\ redis_client = "None"
    /\ redis_up \in BOOLEAN
    /\ store = EmptyStore
    /\ stage = "Pool"
    /\ requests = 0
    /\ req = NewRequest(EmptyStore)
    /\ calls = NoCalls

PoolNext == PoolInit \/ PoolClose \/ PoolGet \/ RedisFails \/ RedisRecovers

SpecPool == InitPool /\ [][PoolNext]_vars

(***************************************************************************)
(* The keyspace: the typed methods of CacheService with their keys,        *)
(* delete(key) and clear_all(), over a Redis that holds other keys too.    *)
(***************************************************************************)
\* the crypto_id arguments explored: a coin, and one that reads like the
\* suffix of a list key
CryptoIds == {"bitcoin", "top20"}
\* calls of the cache service explored in one behaviour
MaxOps == 2

\* the kinds whose methods take a crypto_id, and the (kind, crypto_id)
\* pairs ("" for a kind without one)
KindsById == {"details", "sparkline"}
KindIds ==
    {<<k, "">> : k \in CacheKinds \ KindsById} \cup (KindsById \X CryptoIds)

\* A faulty TopKey, for sensitivity runs: a list without sparklines goes under another key.
TopKey_PerFlag(include_sparkline) ==
    IF include_sparkline THEN TopListKey ELSE "crypto:gainers:top20"

\* get_/set_top_cryptocurrencies(..., include_sparkline): key = 'crypto:list:top20'
TopKey(include_sparkline) == TopListKey

\* A faulty TypedKey, for sensitivity runs: a sparkline goes under the details key of its coin.
TypedKey_SparklineUnderDetails(kind, id, include_sparkline) ==
    CASE kind = "top" -> TopKey(include_sparkline)
      [] kind = "gainers" -> "crypto:gainers:top20"
      [] kind = "losers" -> "crypto:losers:top20"
      [] OTHER -> "crypto:details:" \o id

\* the key each typed method computes
TypedKey(kind, id, include_sparkline) ==
    CASE kind = "top" -> TopKey(include_sparkline)
      [] kind = "gainers" -> "crypto:gainers:top20"
      [] kind = "losers" -> "crypto:losers:top20"
      [] kind = "details" -> "crypto:details:" \o id
      [] kind = "sparkline" -> "crypto:sparkline:" \o id

\* a key another application keeps in the same Redis database
ForeignKey == "session:42"
AllKeys ==
    {"crypto:list:top20", "crypto:gainers:top20", "crypto:losers:top20",
     ForeignKey}
    \cup {"crypto:details:" \o id : id \in CryptoIds}
    \cup {"crypto:sparkline:" \o id : id \in CryptoIds}

\* A faulty MatchesCrypto, for sensitivity runs: the scan has no pattern.
MatchesCrypto_NoPattern(key) == TRUE

\* scan_iter(match='crypto:*') returns key
MatchesCrypto(key) == Len(key) >= 7 /\ SubSeq(key, 1, 7) = "crypto:"

\* the exception of "client = self._get_client()" and of a Redis command
\* ("none": none)
ClientFailure(client, up) ==
    IF GetClientRaises(client) THEN "RuntimeError"
    ELSE IF ~up THEN "ConnectionError"
    ELSE "none"

\* CacheService.delete(key): the keyspace after the call
delete(key, client, up, st) ==
    IF ClientFailure(client, up) # "none" THEN st
    ELSE [st EXCEPT ![key] = NoEntry]

\* what a set is given: for the top list a list with sparklines or one
\* without, with or without a ttl
TypedValues(kind) ==
    IF kind = "sparkline" THEN {PointsA}
    ELSE IF kind = "top" THEN {BatchA, BatchB}
    ELSE {BatchB}
TypedTtls(kind) == IF kind = "top" THEN TtlArgs ELSE {0}

\* the orders in which the scan passes the keys of the database
ScanOrders ==
    {<<"crypto:list:top20", ForeignKey, "crypto:details:bitcoin",
       "crypto:sparkline:top20", "crypto:gainers:top20",
       "crypto:details:top20", "crypto:losers:top20",
       "crypto:sparkline:bitcoin">>,
     <<"crypto:sparkline:bitcoin", "crypto:losers:top20",
       "crypto:details:top20", "crypto:gainers:top20",
       "crypto:sparkline:top20", "crypto:details:bitcoin", ForeignKey,
       "crypto:list:top20">>}

\* the top list the cache was last given and still holds
TopAfter(st, top) == IF st["crypto:list:top20"].present THEN top ELSE NoKeyspace.top

\* get_top_cryptocurrencies(include_sparkline), get_gainers(), get_losers(),
\* get_cryptocurrency_details(crypto_id), get_sparkline(crypto_id)
TypedGet ==
    /\ stage = "Keyspace" /\ calls.ks.ops < MaxOps /\ calls.ks.pc = "idle"
    /\ \E p \in KindIds, include_sparkline \in BOOLEAN :
          LET key == TypedKey(p[1], p[2], include_sparkline)
              got == get_json(key, redis_client, redis_up, store, now)
              e == GetFailure(key, redis_client, redis_up, store, now)
          IN /\ p[1] # "top" => include_sparkline
             /\ calls' = [calls EXCEPT
                   !.last = CallResult("get", CallOutcome(e), e,
                                       got.hit, got.value,
                                       <<p[1], include_sparkline>>),
                   !.ks.ops = @ + 1,
                   !.ks.key = key]
    /\ UNCHANGED <<execVars, envVars, orchVars>>

\* set_top_cryptocurrencies(data, ttl, include_sparkline), set_gainers,
\* set_losers, set_cryptocurrency_details, set_sparkline
TypedSet ==
    /\ stage = "Keyspace" /\ calls.ks.ops < MaxOps
    /\ \E p \in KindIds, include_sparkline \in BOOLEAN :
       \E data \in TypedValues(p[1]), ttl \in TypedTtls(p[1]) :
          LET key == TypedKey(p[1], p[2], include_sparkline)
              e == SetFailure(data, redis_client, redis_up)
              after == set_json(key, data, KindTtl(p[1], ttl), redis_client,
                                redis_up, store, now)
          IN /\ p[1] # "top" => include_sparkline
             /\ store' = after
             /\ calls' = [calls EXCEPT
                   !.last = CallResult("set", CallOutcome(e), e, FALSE, <<>>,
                                       data),
                   !.ks.ops = @ + 1,
                   !.ks.key = key,
                   !.ks.concurrent = @ \/ calls.ks.pc = "clearing",
                   !.ks.top = IF p[1] = "top" /\ e = "none"
                              THEN [set |-> TRUE, data |-> data,
                                    flag |-> include_sparkline]
                              ELSE TopAfter(after, @)]
    /\ UNCHANGED <<execVars, orchVars, now, redis_client, redis_up>>

\* delete(key), with any key
Delete ==
    /\ stage = "Keyspace" /\ calls.ks.ops < MaxOps /\ calls.ks.pc = "idle"
    /\ \E key \in AllKeys :
          LET e == ClientFailure(redis_client, redis_up)
              after == delete(key, redis_client, redis_up, store)
          IN /\ store' = after
             /\ calls' = [calls EXCEPT
                   !.last = CallResult("delete", CallOutcome(e), e, FALSE,
                                       <<>>, <<>>),
                   !.ks.ops = @ + 1,
                   !.ks.key = key,
                   !.ks.top = TopAfter(after, @)]
    /\ UNCHANGED <<execVars, orchVars, now, redis_client, redis_up>>

\* clear_all() up to the loop: client = self._get_client(); the scan has
\* every key of the database ahead of it
ClearBegins ==
    /\ stage = "Keyspace" /\ calls.ks.ops < MaxOps /\ calls.ks.pc = "idle"
    /\ \E order \in ScanOrders :
       LET e == ClientFailure(redis_client, TRUE)
       IN calls' = [calls EXCEPT
             !.last = IF e = "none" THEN @
                      ELSE CallResult("clear", CallOutcome(e), e, FALSE,
                                      <<>>, <<>>),
             !.ks.ops = IF e = "none" THEN @ ELSE @ + 1,
             !.ks.pc = IF e = "none" THEN "clearing" ELSE "idle",
             !.ks.todo = order,
             !.ks.before = <<store>>,
             !.ks.concurrent = FALSE,
             !.ks.failed = e # "none"]
    /\ UNCHANGED <<execVars, envVars, orchVars>>

\* One iteration of "async for key in client.scan_iter(match='crypto:*'):
\* await client.delete(key)": the scan passes a key and, if it is there and
\* matches, deletes it; a command that fails ends clear_all in its except
\* clause; after the last key the loop is over.
ClearStep ==
    /\ stage = "Keyspace" /\ calls.ks.pc = "clearing"
    /\ IF ~redis_up
       THEN /\ calls' = [calls EXCEPT
                   !.last = CallResult("clear", CallOutcome("ConnectionError"),
                                       "ConnectionError", FALSE, <<>>, <<>>),
                   !.ks.ops = @ + 1,
                   !.ks.pc = "idle",
                   !.ks.failed = TRUE]
            /\ store' = store
       ELSE LET key == Head(calls.ks.todo)
                after == IF MatchesCrypto(key) /\ store[key].present
                         THEN [store EXCEPT ![key] = NoEntry]
                         ELSE store
                left == Tail(calls.ks.todo)
            IN    /\ store' = after
                  /\ calls' = [calls EXCEPT
                        !.last = IF left = <<>>
                                 THEN CallResult("clear", "returned", "none",
                                                 FALSE, <<>>, <<>>)
                                 ELSE @,
                        !.ks.ops = IF left = <<>> THEN @ + 1 ELSE @,
                        !.ks.pc = IF left = <<>> THEN "idle" ELSE "clearing",
                        !.ks.todo = left,
                        !.ks.key = key,
                        !.ks.top = TopAfter(after, @)]
    /\ UNCHANGED <<execVars, orchVars, now, redis_client, redis_up>>

\* the keys Redis holds at the start: none, all, the foreign key only, some
KeySubsets ==
    {{}, AllKeys, {ForeignKey},
     {"crypto:list:top20", "crypto:sparkline:bitcoin", ForeignKey}}

InitKeyspace ==
    /\ IdleExec
    /\ now = 0
    /\ redis_client \in {"None", "client"}
    /\ redis_up = TRUE
    /\ \E S \in KeySubsets :
          store = [k \in AllKeys |->
                     IF k \in S THEN Entry(JsonDumps(BatchA), DefaultTtl)
                     ELSE NoEntry]
    /\ stage = "Keyspace"
    /\ requests = 0
    /\ req = NewRequest(EmptyStore)
    /\ calls = NoCalls

KeyspaceNext ==
    \/ TypedGet \/ TypedSet \/ Delete \/ ClearBegins \/ ClearStep
    \/ RedisFails

SpecKeyspace == InitKeyspace /\ [][KeyspaceNext]_vars

\* filter_valid_cryptocurrencies(crypto_list) called once, at clock reading
\* 0, on a list of at most MaxBatch + 1 records: it returns the two lists or
\* raises.
FilterBatch ==
    /\ stage = "Filter"
    /\ calls.last.op = "none"
    /\ LET batch == req.normalized
       IN IF FilterRaises(batch)
          THEN /\ calls' = [calls EXCEPT !.last =
                              CallResult("filter", "raised", "TypeError",
                                         FALSE, <<>>, batch)]
               /\ req' = req
          ELSE LET f == filter_valid_cryptocurrencies(batch, now)
               IN /\ calls' = [calls EXCEPT !.last =
                                 CallResult("filter", "returned", "none",
                                            FALSE,
                                            [i \in DOMAIN batch |->
                                               validate_cryptocurrency(batch[i], now)],
                                            batch)]
                  /\ req' = [req EXCEPT !.valid = f.valid,
                                        !.rejected = f.invalid]
    /\ UNCHANGED <<execVars, envVars, stage, requests>>

InitFilter ==
    /\ IdleExec
    /\ now = 0
    /\ redis_client = "None"
    /\ redis_up = TRUE
    /\ store = EmptyStore
    /\ stage = "Filter"
    /\ requests = 0
    /\ \E batch \in FilterBatches :
          req = [NewRequest(EmptyStore) EXCEPT !.normalized = batch]
    /\ calls = NoCalls

SpecFilter == InitFilter /\ [][FilterBatch]_vars

\* map_coingecko_response(api_data) or map_coinmarketcap_response(api_data)
\* called once: it returns the canonical record or raises.
MapResponse ==
    /\ stage = "Map"
    /\ calls.last.op = "none"
    /\ IF MapperRaises(req.provider, req.raw[1])
       THEN /\ calls' = [calls EXCEPT !.last =
                           CallResult("map", "raised", "AttributeError",
                                      FALSE, <<>>, req.raw)]
            /\ req' = req
       ELSE /\ calls' = [calls EXCEPT !.last =
                           CallResult("map", "returned", "none",
                                      FALSE, <<>>, req.raw)]
            /\ req' = [req EXCEPT !.normalized =
                          <<MapRecord(req.provider, req.raw[1], now)>>]
    /\ UNCHANGED <<execVars, envVars, stage, requests>>

\* A mapper alone, on one record, with the clock on and off the hour.
InitMap ==
    /\ IdleExec
    /\ now \in {0, 200, 3700, 7300}
    /\ redis_client = "None"
    /\ redis_up = TRUE
    /\ store = EmptyStore
    /\ stage = "Map"
    /\ requests = 0
    /\ \E provider \in Sources : \E raw \in MapInputs(provider) :
          req = [NewRequest(EmptyStore) EXCEPT !.provider = provider,
                                               !.raw = <<raw>>]
    /\ calls = NoCalls

SpecMap == InitMap /\ [][MapResponse]_vars

\* validate_cryptocurrency(data) on one record, through the filter, at clock
\* reading 0
InitValidate ==
    /\ IdleExec
    /\ now = 0
    /\ redis_client = "None"
    /\ redis_up = TRUE
    /\ store = EmptyStore
    /\ stage = "Filter"
    /\ requests = 0
    /\ \E data \in ValidateRecords :
          req = [NewRequest(EmptyStore) EXCEPT !.normalized = <<data>>]
    /\ calls = NoCalls

SpecValidate == InitValidate /\ [][FilterBatch]_vars

(***************************************************************************)
(* The health endpoint: health_check() of api/routes/health.py, one step   *)
(* per await, with ping_redis() of redis_client.py and ping() of the two   *)
(* source clients.                                                         *)
(***************************************************************************)
\* What the try block of ping() ends with: NoExc when client.get returned a
\* reply for which raise_for_status() does not raise, else what client.get
\* or raise_for_status() raised.
PingEnds == {NoExc} \cup OperationFailures

\* round-trip times of the Redis PING, in milliseconds
RedisLatencies == {0, 2}

\* A faulty ping, for sensitivity runs: no try statement, every failure is raised.
ping_NoTry(e) ==
    IF e = NoExc THEN [raised |-> FALSE, value |-> TRUE, exc |-> NoExc]
    ELSE [raised |-> TRUE, value |-> FALSE, exc |-> e]

\* A faulty ping, for sensitivity runs: errors that are not retryable are re-raised.
ping_ReraisesPermanent(e) ==
    IF e = NoExc THEN [raised |-> FALSE, value |-> TRUE, exc |-> NoExc]
    ELSE IF is_retryable_error(e)
         THEN [raised |-> FALSE, value |-> FALSE, exc |-> NoExc]
    ELSE [raised |-> TRUE, value |-> FALSE, exc |-> e]

\* ping() of a source client: return True at the end of the try block,
\* except Exception: return False
ping(e) ==
    IF e = NoExc THEN [raised |-> FALSE, value |-> TRUE, exc |-> NoExc]
    ELSE IF IsInstance(e, {"Exception"})
         THEN [raised |-> FALSE, value |-> FALSE, exc |-> NoExc]
    ELSE [raised |-> TRUE, value |-> FALSE, exc |-> e]

\* The wrapper of @retry_api_call around ping(), while the source keeps
\* answering the same: what func returns is returned at the first attempt;
\* what it raises is raised, at once when it is not retryable and after the
\* last attempt when it is.
PingCall(e) ==
    LET r == ping(e)
    IN [raised |-> r.raised, value |-> r.value, exc |-> r.exc, ends |-> e,
        attempts |-> IF r.raised /\ is_retryable_error(r.exc)
                     THEN ApiCallMaxAttempts ELSE 1]

\* ping_redis(): get_redis_client() raises RuntimeError without a pool,
\* client.ping() raises when the server does not answer; except Exception
\* returns (False, None), and the latency is measured otherwise.
ping_redis(client, up, ms) ==
    IF GetClientRaises(client) \/ ~up
    THEN [connected |-> FALSE, latency_ms |-> -1]
    ELSE [connected |-> TRUE, latency_ms |-> ms]

\* A faulty HealthStatus, for sensitivity runs: one unavailable source degrades.
HealthStatus_AnySourceDown(redis_connected, coingecko_available, coinmarketcap_available) ==
    IF ~redis_connected THEN "degraded"
    ELSE IF ~coingecko_available \/ ~coinmarketcap_available THEN "degraded"
    ELSE "healthy"

\* status = 'healthy'; if not redis_connected ... elif not coingecko_available
\* and not coinmarketcap_available ...
HealthStatus(redis_connected, coingecko_available, coinmarketcap_available) ==
    IF ~redis_connected THEN "degraded"
    ELSE IF ~coingecko_available /\ ~coinmarketcap_available THEN "degraded"
    ELSE "healthy"

\* redis_connected, redis_latency = await ping_redis()
HealthPingRedis ==
    /\ stage = "Health" /\ calls.health.pc = "redis"
    /\ \E ms \in RedisLatencies :
          LET r == ping_redis(redis_client, redis_up, ms)
          IN calls' = [calls EXCEPT !.health.redis_connected = r.connected,
                                    !.health.redis_latency = r.latency_ms,
                                    !.health.pc = "coingecko"]
    /\ UNCHANGED <<execVars, envVars, orchVars>>

\* coingecko_available = await coingecko_client.ping(), then
\* coinmarketcap_available = await coinmarketcap_client.ping(); an exception
\* of either leaves health_check.
HealthPing ==
    /\ stage = "Health" /\ calls.health.pc \in {"coingecko", "coinmarketcap"}
    /\ \E e \in PingEnds :
          LET r == PingCall(e)
              h == [calls.health EXCEPT !.probes = Append(@, r)]
          IN calls' = [calls EXCEPT !.health =
                 IF r.raised
                 THEN [h EXCEPT !.pc = "done", !.outcome = "raised"]
                 ELSE IF calls.health.pc = "coingecko"
                 THEN [h EXCEPT !.coingecko_available = r.value,
                                !.pc = "coinmarketcap"]
                 ELSE [h EXCEPT !.coinmarketcap_available = r.value,
                                !.pc = "status"]]
    /\ UNCHANGED <<execVars, envVars, orchVars>>

\* the status and the returned dict
HealthReturn ==
    /\ stage = "Health" /\ calls.health.pc = "status"
    /\ LET h == calls.health
       IN calls' = [calls EXCEPT
              !.health.pc = "done",
              !.health.outcome = "returned",
              !.health.response =
                 <<[status |-> HealthStatus(h.redis_connected,
                                            h.coingecko_available,
                                            h.coinmarketcap_available),
                    timestamp |-> now,
                    cache |->
                       [connected |-> h.redis_connected,
                        latency_ms |-> IF h.redis_latency > 0
                                       THEN h.redis_latency ELSE -1],
                    external_apis |->
                       [coingecko |-> IF h.coingecko_available
                                      THEN "available" ELSE "unavailable",
                        coinmarketcap |-> IF h.coinmarketcap_available
                                          THEN "available"
                                          ELSE "unavailable"]]>>]
    /\ UNCHANGED <<execVars, envVars, orchVars>>

HealthNext == HealthPingRedis \/ HealthPing \/ HealthReturn

\* One GET /health, with the pool initialised or not and the Redis server
\* answering or not.
InitHealth ==
    /\ IdleExec
    /\ now = 0
    /\ redis_client \in {"None", "client"}
    /\ redis_up \in BOOLEAN
    /\ store = EmptyStore
    /\ stage = "Health"
    /\ requests = 0
    /\ req = NewRequest(EmptyStore)
    /\ calls = [NoCalls EXCEPT !.health.pc = "redis"]

SpecHealth == InitHealth /\ [][HealthNext]_vars

(***************************************************************************)
(* The probes of health_check, step by step through the wrapper that       *)
(* @retry_api_call puts around ping().                                     *)
(***************************************************************************)
\* the bool ping() returned, as the result of an invocation
PingResult(b) == [kind |-> "bool", items |-> <<b>>]

\* "result = await func(...)" with func = ping: ping makes its request,
\* which ends with e, and returns or raises; then "return cast(T, result)"
\* or the except clause, up to the raise or to the sleep.
ProbeAttemptEnds ==
    /\ stage = "Probe" /\ pc = "awaiting"
    /\ \E e \in PingEnds :
          LET r == ping(e)
              does == IF r.raised
                      THEN ExceptClause(r.exc, retryable_exceptions, attempt,
                                        max_attempts)
                      ELSE "return"
              seen == Append(events, [ev |-> "request", arg |-> e])
          IN /\ outcomes' = Append(outcomes,
                                   IF r.raised THEN Failed(r.exc)
                                   ELSE Returned(PingResult(r.value)))
             /\ last_exception' = IF does \in {"return", "propagate"}
                                  THEN last_exception ELSE r.exc
             /\ outcome' = CASE does = "return" ->
                                   ReturnOutcome(PingResult(r.value))
                             [] does \in {"propagate", "reraise"} ->
                                   ReraiseOutcome(r.exc)
                             [] does = "exhausted" ->
                                   ExhaustedOutcome(max_attempts, r.exc)
                             [] OTHER -> outcome
             /\ pc' = IF does = "sleep" THEN "sleeping" ELSE "done"
             /\ events' = IF does = "sleep"
                          THEN Append(seen, SleepEvent(BackoffDelay(attempt,
                                                                    base_delay)))
                          ELSE seen
    /\ UNCHANGED <<max_attempts, base_delay, retryable_exceptions, source, attempt>>
    /\ UNCHANGED <<envVars, orchVars, calls>>

\* health_check takes what the wrapper returned (or the exception leaves
\* it) and goes on to the probe of the other client.
ProbeEnds ==
    /\ stage = "Probe" /\ pc = "done"
    /\ calls.health.pc \in {"coingecko", "coinmarketcap"}
    /\ LET ok == outcome.kind = "returned"
           r == [raised |-> ~ok,
                 value |-> ok /\ outcome.result = PingResult(TRUE),
                 exc |-> outcome.exc,
                 ends |-> events[Len(events)].arg,
                 attempts |-> Len(outcomes)]
           h == [calls.health EXCEPT !.probes = Append(@, r)]
       IN IF ~ok
          THEN /\ calls' = [calls EXCEPT !.health =
                              [h EXCEPT !.pc = "done", !.outcome = "raised"]]
               /\ UNCHANGED execVars
          ELSE IF calls.health.pc = "coingecko"
          THEN /\ calls' = [calls EXCEPT !.health =
                              [h EXCEPT !.coingecko_available = r.value,
                                        !.pc = "coinmarketcap"]]
               /\ ExecReset(ApiCallMaxAttempts, ApiCallBaseDelayMs,
                            ApiCallRetryableExceptions, "fallback")
          ELSE /\ calls' = [calls EXCEPT !.health =
                              [h EXCEPT !.coinmarketcap_available = r.value,
                                        !.pc = "status"]]
               /\ UNCHANGED execVars
    /\ UNCHANGED <<envVars, orchVars>>

\* health_check at "await coingecko_client.ping()", the cache probed
InitProbe ==
    /\ max_attempts = ApiCallMaxAttempts
    /\ base_delay = ApiCallBaseDelayMs
    /\ retryable_exceptions = ApiCallRetryableExceptions
    /\ source = "primary"
    /\ pc = "ready"
    /\ attempt = 0
    /\ last_exception = NoExc
    /\ outcome = Running
    /\ events = <<>>
    /\ outcomes = <<>>
    /\ now = 0
    /\ redis_client = "client"
    /\ redis_up = TRUE
    /\ store = EmptyStore
    /\ stage = "Probe"
    /\ requests = 0
    /\ req = NewRequest(EmptyStore)
    /\ calls = [NoCalls EXCEPT !.health.pc = "coingecko",
                               !.health.redis_connected = TRUE,
                               !.health.redis_latency = 2]

SpecProbe == InitProbe /\ [][LoopHead \/ ProbeAttemptEnds \/ ProbeEnds]_vars

(***************************************************************************)
(* Properties of the backoff executor, checked under SpecRetry.            *)
(***************************************************************************)
\* the invocations and the sleeps of the wrapper call so far
CallIndexes == {i \in DOMAIN events : events[i].ev = "call"}
SleepIndexes == {i \in DOMAIN events : events[i].ev = "sleep"}
Calls == Cardinality(CallIndexes)
Sleeps == Cardinality(SleepIndexes)

\* The classification of section 4.1 of the specification: a timeout or a
\* connection failure of the HTTP client, a 5xx status, the status 429.
IsHttpxTransport(e) == e.type \in {"TimeoutException", "ConnectTimeout", "ConnectError"}
IsServerError(e) == e.type = "HTTPStatusError" /\ e.status \in 500..599
IsRateLimit(e) == e.type = "HTTPStatusError" /\ e.status = 429
Transient(e) == IsHttpxTransport(e) \/ IsServerError(e) \/ IsRateLimit(e)
\* a 4xx status other than 429, or a malformed-response error
Permanent(e) ==
    \/ e.type = "HTTPStatusError" /\ e.status \in 400..499 /\ e.status # 429
    \/ e.type \in {"ValueError", "KeyError"}

\* C1: with a budget N >= 1 the wrapper invokes the operation at most N
\* times, and an invocation that succeeds is the last thing the call does:
\* the call is over with that invocation's result, and no invocation and no
\* sleep follows it.
C1_AtMostNAndStopAtSuccess ==
    max_attempts >= 1 =>
        /\ Calls <= max_attempts
        /\ Len(outcomes) <= Calls
        /\ \A i \in DOMAIN outcomes :
              outcomes[i].ok =>
                  /\ i = Len(outcomes)
                  /\ pc = "done"
                  /\ outcome.kind = "returned"
                  /\ outcome.result = outcomes[i].result
                  /\ Len(events) = 2 * i - 1
                  /\ events[Len(events)] = CallEvent(i - 1)

\* C1 witness: a call with budget 3 that succeeded at its second invocation
C1_Witness ==
    /\ max_attempts = 3 /\ pc = "done" /\ outcome.kind = "returned"
    /\ Len(outcomes) = 2 /\ ~outcomes[1].ok /\ outcomes[2].ok
    /\ Len(outcome.result.items) > 0

\* C2: a permanent failure at any invocation ends the call at once with that
\* very error, not with RetryExhausted: no invocation and no sleep follows
\* it, so a permanent failure of the first invocation leaves the count at 1.
C2_PermanentFailurePropagates ==
    \A i \in DOMAIN outcomes :
        (~outcomes[i].ok /\ Permanent(outcomes[i].exc)) =>
            /\ i = Len(outcomes)
            /\ pc = "done"
            /\ outcome.kind = "raised"
            /\ outcome.exc = outcomes[i].exc
            /\ Calls = i
            /\ Sleeps = i - 1
            /\ events[Len(events)] = CallEvent(i - 1)

\* C2 witness: a call ended by a 400 status at its first invocation
C2_Witness ==
    /\ pc = "done" /\ Len(outcomes) = 1 /\ Calls = 1
    /\ outcomes[1].exc = Exc("HTTPStatusError", 400)
    /\ outcome = ReraiseOutcome(Exc("HTTPStatusError", 400))
    /\ max_attempts = 3

\* C3 (as claimed): a 429 status is classified retryable and is retried
\* while budget remains, so a call whose invocations all fail with 429 makes
\* N invocations and ends in RetryExhausted.
C3_RateLimitRetried ==
    \A i \in DOMAIN outcomes :
        (~outcomes[i].ok /\ IsRateLimit(outcomes[i].exc)) =>
            /\ is_retryable_error(outcomes[i].exc)
            /\ (i < max_attempts => ~(pc = "done" /\ Len(outcomes) = i))
            /\ ((pc = "done" /\ \A j \in DOMAIN outcomes :
                                    IsRateLimit(outcomes[j].exc))
                  => /\ Len(outcomes) = max_attempts
                     /\ outcome.kind = "RetryExhausted")

\* C4: a timeout or a connection failure of the HTTP client and a status
\* 500..599 are classified retryable, and after such a failure of invocation
\* i < N the call goes on (to its sleep and the next invocation).
C4_TransientFailureRetried ==
    /\ \A e \in OperationFailures :
          (IsHttpxTransport(e) \/ IsServerError(e)) => is_retryable_error(e)
    /\ \A i \in DOMAIN outcomes :
          (/\ ~outcomes[i].ok
           /\ IsHttpxTransport(outcomes[i].exc) \/ IsServerError(outcomes[i].exc)
           /\ i < max_attempts)
            => \/ Len(outcomes) > i
               \/ /\ pc \in {"sleeping", "ready", "awaiting"}
                  /\ Sleeps = i

\* C4 witness: a second invocation made after a 599 status
C4_Witness ==
    /\ Len(outcomes) = 2 /\ Calls = 2
    /\ outcomes[1].exc = Exc("HTTPStatusError", 599)

\* C5 (as claimed): a call whose N invocations all fail with retryable
\* failures (section 4.1: 429 included) ends in RetryExhausted carrying N and
\* the failure of invocation N; and no call returns without a success.
C5_ExhaustionReported ==
    pc = "done" =>
        /\ (/\ max_attempts >= 1
            /\ Len(outcomes) = max_attempts
            /\ \A i \in DOMAIN outcomes :
                  ~outcomes[i].ok /\ Transient(outcomes[i].exc))
             => /\ outcome.kind = "RetryExhausted"
                /\ outcome.attempts = max_attempts
                /\ outcome.attempts = Calls
                /\ outcome.exc = outcomes[max_attempts].exc
        /\ (outcome.kind = "returned" => \E i \in DOMAIN outcomes : outcomes[i].ok)

\* delay before invocation k >= 1: min(d * 2^(k-1), 30 s), in milliseconds
ClaimedDelay(k, d) == IF d * (2 ^ (k - 1)) < 30000 THEN d * (2 ^ (k - 1)) ELSE 30000

\* C6: invocation 0 is the first thing a call does; every invocation k >= 1
\* is immediately preceded by one sleep of min(d * 2^(k-1), 30 s); every
\* sleep is between two invocations, so none follows the last failed one and
\* a finished call that made invocations has slept once less.
C6_SleepSchedule ==
    /\ \A i \in DOMAIN events :
          /\ (events[i].ev = "call" /\ events[i].arg = 0) => i = 1
          /\ (events[i].ev = "call" /\ events[i].arg >= 1) =>
                /\ i > 1
                /\ events[i - 1] = SleepEvent(ClaimedDelay(events[i].arg, base_delay))
          /\ events[i].ev = "call" =>
                events[i].arg = Cardinality({j \in CallIndexes : j < i})
          /\ events[i].ev = "sleep" =>
                /\ i > 1 /\ events[i - 1].ev = "call"
                /\ i < Len(events) => events[i + 1].ev = "call"
                /\ i = Len(events) => pc \in {"sleeping", "ready"}
    /\ (pc = "done" /\ Calls >= 1) => Sleeps = Calls - 1
    /\ (pc = "done" /\ Calls = 0) => Sleeps = 0

\* C6 witness: a finished call with d = 0.5 s that slept 0.5, 1 and 2 s
\* before its invocations 1, 2 and 3
C6_Witness ==
    /\ pc = "done" /\ base_delay = 500 /\ Calls = 4
    /\ [i \in 1..Sleeps |-> events[2 * i].arg] = <<500, 1000, 2000>>

(***************************************************************************)
(* Properties of the orchestrator's request, checked under Spec.           *)
(***************************************************************************)
FailedRun(log) == Len(log) >= 1 /\ ~log[Len(log)].ok
SucceededRun(log) == Len(log) >= 1 /\ log[Len(log)].ok
AllTransient(log) == \A i \in DOMAIN log : ~log[i].ok /\ Transient(log[i].exc)
FailureKinds == {"raised", "RetryExhausted", "AssertionError"}

\* what the pipeline makes of a raw payload of the provider at time t
MappedBatch(provider, raw, t) == [i \in 1..Len(raw) |-> MapRecord(provider, raw[i], t)]
NoMapperError(provider, raw) ==
    \A i \in 1..Len(raw) : ~MapperRaises(provider, raw[i])
\* the entry a successful write of the batch at time t leaves under the key
WrittenEntry(batch, t) == Entry(JsonDumps(batch), t + DefaultTtl)
CacheUsable == redis_client = "client" /\ redis_up

\* C7: in a request that missed the cache, after three primary invocations
\* that all failed with a transient error the fallback is run exactly once,
\* and only after the primary run has ended in failure; a fallback payload is
\* mapped, validated, written under 'crypto:list:top20' (when the store takes
\* the write) and returned as the valid batch; and the fallback is never run
\* in a request whose primary fetch succeeded.
C7_FallbackAfterPrimaryExhaustion ==
    /\ req.fallback_runs <= 1 /\ req.primary_runs <= 1
    /\ stage = "PrimaryFetch" => (source = "primary" /\ req.fallback_runs = 0)
    /\ (Len(req.primary_log) = 3 /\ AllTransient(req.primary_log)) =>
          /\ req.cache = "miss"
          /\ req.fallback_runs = 1
          /\ req.primary_end.kind \in FailureKinds
    /\ (req.fallback_runs = 1 \/ stage = "FallbackFetch") =>
          /\ FailedRun(req.primary_log)
          /\ req.primary_end.kind \in FailureKinds
          /\ req.primary_runs = 1
    /\ SucceededRun(req.primary_log) =>
          (req.fallback_runs = 0 /\ req.fallback_log = <<>> /\ req.provider = "primary")
    /\ (stage = "Done" /\ SucceededRun(req.fallback_log)) =>
          LET raw == req.fallback_log[Len(req.fallback_log)].result.items
              batch == MappedBatch("fallback", raw, now)
              valid == filter_valid_cryptocurrencies(batch, now).valid
          IN /\ req.provider = "fallback" /\ req.raw = raw
             /\ Len(req.fallback_log) <= 3
             /\ (NoMapperError("fallback", raw) /\ Len(valid) > 0) =>
                   /\ req.normalized = batch
                   /\ req.validations = 1
                   /\ req.valid = valid
                   /\ \A i \in DOMAIN valid : ValidationErrors(valid[i], now) = <<>>
                   /\ req.writes = <<[key |-> TopListKey, value |-> valid,
                                      outcome |-> "returned"]>>
                   /\ CacheUsable => store[TopListKey] = WrittenEntry(valid, now)
                   /\ req.response = BatchResponse(valid)

\* C7 witness: a finished request whose primary timed out three times and
\* whose fallback payload was cached and returned
C7_Witness ==
    /\ stage = "Done"
    /\ Len(req.primary_log) = 3 /\ AllTransient(req.primary_log)
    /\ req.primary_end.kind = "RetryExhausted"
    /\ req.fallback_runs = 1 /\ SucceededRun(req.fallback_log)
    /\ req.response.kind = "batch" /\ Len(req.response.items) = 1
    /\ Len(req.rejected) = 1
    /\ store[TopListKey] = WrittenEntry(req.response.items, now)

\* C8: a request in which the primary run and the fallback run both ended in
\* failure ends with the service-unavailable error (ExternalAPIError, with
\* its message and its code), after one run of each source and no other
\* fetch, without validation and without a cache write: the entry under the
\* request's key is the one the request found.
C8_BothSourcesFail ==
    (FailedRun(req.primary_log) /\ FailedRun(req.fallback_log)) =>
        /\ stage = "Done"
        /\ req.response.kind = "unavailable"
        /\ req.response.code = "EXTERNAL_API_FAILURE"
        /\ req.response.message = "External API unavailable. Please try again later."
        /\ req.response.status >= 500
        /\ req.response.items = <<>>
        /\ req.primary_runs = 1 /\ req.fallback_runs = 1
        /\ pc = "done" /\ source = "fallback" /\ outcomes = req.fallback_log
        /\ req.validations = 0
        /\ req.writes = <<>>
        /\ store[TopListKey] = req.store_before[TopListKey]

\* C8 witness: both sources exhausted their three attempts while an entry
\* written by an earlier request was in the store, expired
C8_Witness ==
    /\ stage = "Done"
    /\ req.primary_end.kind = "RetryExhausted"
    /\ req.fallback_end.kind = "RetryExhausted"
    /\ Len(req.primary_log) = 3 /\ Len(req.fallback_log) = 3
    /\ req.response = ExternalAPIError
    /\ store[TopListKey].present /\ ~Live(store[TopListKey], now)

\* C9: a cache hit ends the request with the cached value: no source is
\* invoked, nothing is validated and nothing is written to the cache.
C9_CacheHitIsTerminal ==
    req.cache = "hit" =>
        /\ stage = "Done"
        /\ CacheUsable /\ Live(store[TopListKey], now)
        /\ req.cached = store[TopListKey].value
        /\ req.response = BatchResponse(req.cached)
        /\ Len(req.response.items) > 0
        /\ req.primary_runs = 0 /\ req.fallback_runs = 0
        /\ req.primary_log = <<>> /\ req.fallback_log = <<>>
        /\ events = <<>> /\ outcomes = <<>>
        /\ req.validations = 0
        /\ req.writes = <<>>
        /\ store = req.store_before

\* C9 witness: the second request is answered with the two records the
\* first one cached
C9_Witness ==
    /\ requests = 2 /\ req.cache = "hit" /\ stage = "Done"
    /\ Len(req.response.items) = 2
    /\ req.response.items[1].id = Str("bitcoin")

\* C10: a permanent failure of the primary ends the primary run at that
\* invocation (a permanent failure of the first invocation leaves exactly
\* one primary invocation) and leads to the fallback fetch as exhaustion
\* does; the request then ends unavailable only if the fallback run fails
\* too or its batch has no valid record.
C10_PermanentPrimaryFailureFallsBack ==
    /\ stage = "PrimaryFetch" =>
          \A i \in DOMAIN outcomes :
              (~outcomes[i].ok /\ Permanent(outcomes[i].exc)) =>
                  (i = Len(outcomes) /\ pc = "done" /\ Calls = i)
    /\ \A i \in DOMAIN req.primary_log :
          (~req.primary_log[i].ok /\ Permanent(req.primary_log[i].exc)) =>
              /\ i = Len(req.primary_log)
              /\ req.primary_end = ReraiseOutcome(req.primary_log[i].exc)
              /\ req.primary_runs = 1
              /\ req.fallback_runs = 1
    /\ req.primary_end.kind \in {"raised", "RetryExhausted"} => req.fallback_runs = 1
    /\ (stage = "Done" /\ FailedRun(req.primary_log)) =>
          /\ req.response.kind \in {"batch", "unavailable"}
          /\ req.response.kind = "unavailable" =>
                \/ FailedRun(req.fallback_log)
                \/ /\ SucceededRun(req.fallback_log)
                   /\ req.validations = 1 /\ req.valid = <<>>
          /\ (SucceededRun(req.fallback_log) /\ req.valid # <<>>) =>
                req.response = BatchResponse(req.valid)

\* C10 witness: the primary answered 400 once, the fallback's batch was
\* returned
C10_Witness ==
    /\ stage = "Done"
    /\ req.primary_log = <<Failed(Exc("HTTPStatusError", 400))>>
    /\ req.fallback_runs = 1
    /\ req.response.kind = "batch" /\ Len(req.response.items) = 2

\* a record of a stored document with its timestamps read back as datetimes
Revived(r) ==
    [r EXCEPT !.lastUpdated = FromIsoFormat(r.lastUpdated),
              !.sparklineData = [j \in 1..Len(r.sparklineData) |->
                  [r.sparklineData[j] EXCEPT !.timestamp = FromIsoFormat(@)]]]

\* C11: a request whose fetched batch has no valid record ends with the
\* error of both sources being down (ExternalAPIError) and writes nothing:
\* the entry under the key is the one the request found.  Every value a
\* request writes, and every value the store holds, is a non-empty batch of
\* records that passed validation when it was written.
C11_EmptyValidBatchIsFailure ==
    /\ (req.validations = 1 /\ req.valid = <<>>) =>
          /\ stage = "Done"
          /\ req.response = ExternalAPIError
          /\ req.writes = <<>>
          /\ store[TopListKey] = req.store_before[TopListKey]
    /\ \A w \in DOMAIN req.writes :
          /\ req.writes[w].key = TopListKey
          /\ Len(req.writes[w].value) > 0
          /\ \A i \in DOMAIN req.writes[w].value :
                ValidationErrors(req.writes[w].value[i], now) = <<>>
    /\ store[TopListKey].present =>
          LET e == store[TopListKey]
          IN /\ Len(e.value) > 0
             /\ \A i \in DOMAIN e.value :
                   ValidationErrors(Revived(e.value[i]), e.expires - DefaultTtl) = <<>>

\* C11 witness: the primary's batch was one record with a price of 0, while
\* an entry of an earlier request was in the store
C11_Witness ==
    /\ stage = "Done" /\ req.provider = "primary"
    /\ Len(req.normalized) = 1 /\ req.valid = <<>> /\ Len(req.rejected) = 1
    /\ req.response = ExternalAPIError
    /\ store[TopListKey].present

\* C12 (as claimed): whatever the cache, the sources and the records do,
\* a request ends with a batch in which every record is valid (it passes
\* validate_cryptocurrency), or with the unavailable signal carrying a
\* message and a code; never with a failure of the cache.
C12_CallerOutcome ==
    stage = "Done" =>
        \/ /\ req.response.kind = "batch"
           /\ req.response.status = 200
           /\ \A i \in DOMAIN req.response.items :
                 ValidationErrors(req.response.items[i], now) = <<>>
        \/ /\ req.response.kind = "unavailable"
           /\ req.response.message # ""
           /\ req.response.code # ""
           /\ req.response.items = <<>>

(***************************************************************************)
(* Properties of the cache service, checked under SpecCache.               *)
(***************************************************************************)
\* the key of the calls, and what a get of a key that is not stored returns
CallKey == KindKey(calls.kind)
Absent == get_json(CallKey, "client", TRUE, EmptyStore, now)
\* a step in which a get, a set finishes
GetFinishes == calls'.last.op = "get" /\ calls'.last # calls.last
SetFinishes == calls'.last.op = "set" /\ calls'.last # calls.last

\* C13: a get never raises and changes nothing in the store; when the
\* client is not initialised, the connection fails or the stored value is
\* no JSON document, it returns None, as it does for a key that is not
\* stored.
C13_GetNeverRaises ==
    [][GetFinishes =>
          LET r == calls'.last
              e == GetFailure(CallKey, redis_client, redis_up, store, now)
          IN /\ r.outcome = "returned"
             /\ store' = store
             /\ r.failure = e
             /\ e # "none" =>
                   /\ ~r.hit
                   /\ [hit |-> r.hit, value |-> r.value] = Absent]_vars

\* C13 witness: a get of a live entry whose value is no JSON document
\* returned None
C13_Witness ==
    /\ calls.last.op = "get" /\ calls.last.failure = "JSONDecodeError"
    /\ calls.last.outcome = "returned" /\ ~calls.last.hit
    /\ Live(store[CallKey], now) /\ store[CallKey].value = Undecodable

(***************************************************************************)
(* Properties of the orchestrator's cache write, checked under Spec.       *)
(***************************************************************************)
\* the store did not take the write of the request
WriteFailed == redis_client = "None" \/ ~redis_up

\* C14: the set of a request always returns, also when the client is not
\* initialised or the connection fails: the store is then left as it was,
\* and the request still ends with the batch it fetched and validated.
C14_SetNeverRaises ==
    /\ \A w \in DOMAIN req.writes : req.writes[w].outcome = "returned"
    /\ (stage \in {"Return", "Done"} /\ req.writes # <<>>) =>
          /\ Len(req.writes) = 1
          /\ req.writes[1].value = req.valid /\ req.valid # <<>>
          /\ stage = "Done" => req.response = BatchResponse(req.valid)
          /\ req.response.kind \in {"none", "batch"}
          /\ WriteFailed => store = req.store_before
          /\ ~WriteFailed => store[TopListKey] = WrittenEntry(req.valid, now)

\* C14 witness: a request answered with its batch of two records although
\* the client was not initialised and nothing was stored
C14_Witness ==
    /\ stage = "Done" /\ Len(req.writes) = 1
    /\ redis_client = "None" /\ ~store[TopListKey].present
    /\ req.response.kind = "batch" /\ Len(req.response.items) = 2

\* data that json.dumps cannot encode
Unserializable == {BatchU, PointsU}

\* C15: a set of data that json.dumps cannot encode ends where it is called:
\* no SETEX command is ever issued for it, the store (the entry under the key
\* and the time at which it expires) is what it was, and the call returns.
C15_UnserializableRejected ==
    [][/\ \A t \in Tasks : calls'.pending[t].pc = "setex" =>
                              calls'.pending[t].data \notin Unserializable
       /\ (SetFinishes /\ calls'.last.data \in Unserializable) =>
             /\ calls'.last.outcome = "returned"
             /\ calls'.last.failure \in {"TypeError", "RuntimeError"}
             /\ redis_client = "client" => calls'.last.failure = "TypeError"
             /\ calls'.pending = calls.pending
             /\ store' = store /\ now' = now]_vars

\* C15 witness: a set of a batch holding an object was refused with
\* TypeError while the key holds a live entry written by an earlier set
C15_Witness ==
    /\ calls.last.op = "set" /\ calls.last.data = BatchU
    /\ calls.last.failure = "TypeError" /\ calls.last.outcome = "returned"
    /\ Live(store[CallKey], now) /\ store[CallKey].value = JsonDumps(BatchA)
    /\ calls.writer[CallKey].data = BatchA

\* C16: a get that hits returns a value equal to the value of the set that
\* wrote the entry, timestamps included, and a record that passed validation
\* when it was written passes it, at the same clock reading, when read back.
C16_RoundTrip ==
    [][(GetFinishes /\ calls'.last.hit) =>
          LET w == calls.writer[CallKey]
              got == calls'.last.value
          IN /\ got = w.data
             /\ calls.kind # "sparkline" =>
                   \A i \in DOMAIN w.data :
                       ValidationErrors(w.data[i], w.at) = <<>>
                          => ValidationErrors(got[i], w.at) = <<>>]_vars

\* C17: a set without a ttl stores its entry for 300 seconds (top list,
\* details, gainers, losers) or 3600 seconds (sparkline), counted from the
\* set, whatever entry the key held before; a get with Redis working finds
\* the entry of the last set until that time has passed and finds nothing
\* from then on.
C17_TtlPerKind ==
    [][/\ \A kind \in SnapshotKinds : KindTtl(kind, 0) = 300
       /\ KindTtl("sparkline", 0) = 3600
       /\ \A t \in Tasks :
             (/\ calls.pending[t].pc = "setex"
              /\ calls'.pending[t].pc = "idle"
              /\ redis_up) =>
                LET c == calls.pending[t]
                    seconds == IF c.ttl # 0 THEN c.ttl
                               ELSE IF calls.kind = "sparkline" THEN 3600
                               ELSE 300
                IN /\ store'[CallKey].present
                   /\ store'[CallKey].expires = now + seconds
                   /\ calls'.writer[CallKey] =
                         Writer(c.data, seconds, now, c.overtaken)
       /\ (GetFinishes /\ calls'.last.failure = "none"
             /\ calls.writer[CallKey].set) =>
                LET w == calls.writer[CallKey]
                IN calls'.last.hit <=> now < w.at + w.ttl]_vars

\* C17 witness: a sparkline entry set at 0 s without a ttl is not found by
\* a get at 3600 s although Redis answers
C17_Witness ==
    /\ calls.kind = "sparkline" /\ now = 3600
    /\ calls.writer[CallKey] = Writer(PointsB, 3600, 0, FALSE)
    /\ store[CallKey] = Entry(JsonDumps(PointsB), 3600)
    /\ calls.last.op = "get" /\ calls.last.failure = "none" /\ ~calls.last.hit

\* the documents of the values a set can store
StorableDocuments ==
    {JsonDumps(d) : d \in SetValues(calls.kind) \ Unserializable}

\* C18: SETEX replaces the whole entry.  While no SETEX has run the key holds
\* what it held at the start; from then on it holds exactly the document and
\* the expiry of the last SETEX the server ran, also when that set was in
\* flight together with another set of the key, and every other key is left
\* alone.  A get that hits returns one whole stored document.
C18_LastWriterWins ==
    [][/\ LET w == calls'.writer[CallKey]
          IN IF w.set
             THEN /\ store'[CallKey] = Entry(JsonDumps(w.data), w.at + w.ttl)
                  /\ store'[CallKey].value \in StorableDocuments
             ELSE store'[CallKey] = store[CallKey]
       /\ \A k \in Keys \ {CallKey} : store'[k] = NoEntry
       /\ \A t \in Tasks :
             (/\ calls.pending[t].pc = "setex"
              /\ calls'.pending[t].pc = "idle"
              /\ redis_up) =>
                /\ calls'.writer[CallKey].data = calls.pending[t].data
                /\ calls'.writer[CallKey].at = now
       /\ (GetFinishes /\ calls'.last.hit) =>
             calls'.last.value \in StorableDocuments]_vars

\* C18 witness: two sets of the top list were in flight together, the set
\* of BatchB ran first and the set of BatchA last; both have returned and
\* the key holds the document of BatchA alone
C18_Witness ==
    /\ calls.kind = "top" /\ NoPendingCall
    /\ calls.writer[CallKey].raced /\ calls.writer[CallKey].data = BatchA
    /\ calls.last.op = "set" /\ calls.last.failure = "none"
    /\ store[CallKey].value = JsonDumps(BatchA)
    /\ store[CallKey].expires = calls.writer[CallKey].at + DefaultTtl

(***************************************************************************)
(* Properties of the filter, checked under SpecFilter.                     *)
(***************************************************************************)
FilterCalled == calls.last.op = "filter"
FilterInput == req.normalized
\* the id the rejection of a record carries
RejectionId(d) == IF d.id = Missing THEN Str("unknown") ELSE d.id

\* C19: called on n records the filter returns two lists that partition
\* them: every record is in exactly one list, both lists are in the order of
\* the input (so their lengths add up to n), the valid records have no
\* validation error, and each rejection carries the id of its record and a
\* non-empty list of errors.
C19_FilterPartitions ==
    FilterCalled =>
       \E V \in SUBSET DOMAIN FilterInput :
          /\ req.valid = Pick(FilterInput, V)
          /\ Len(req.rejected) = Len(FilterInput) - Cardinality(V)
          /\ [j \in DOMAIN req.rejected |-> req.rejected[j].data]
                = Pick(FilterInput, DOMAIN FilterInput \ V)
          /\ Len(req.valid) + Len(req.rejected) = Len(FilterInput)
          /\ \A j \in DOMAIN req.rejected :
                /\ req.rejected[j].id = RejectionId(req.rejected[j].data)
                /\ req.rejected[j].errors # <<>>

\* C20: the filter returns on every batch, whatever is wrong with a record
\* of it: the records in their domain are the valid list and every other
\* record is rejected.
C20_BadRecordNeverAborts ==
    FilterCalled =>
       /\ calls.last.outcome = "returned"
       /\ \A i \in DOMAIN FilterInput :
             \/ \E j \in DOMAIN req.valid : req.valid[j] = FilterInput[i]
             \/ \E j \in DOMAIN req.rejected : req.rejected[j].data = FilterInput[i]

(***************************************************************************)
(* Properties of the validator, checked under SpecValidate.                *)
(***************************************************************************)
\* the record validated, whether the call returned, and the rules of the
\* errors it reported
Validated == req.normalized[1]
ValidateReturned == FilterCalled /\ calls.last.outcome = "returned"
ReportedRules ==
    IF req.rejected = <<>> THEN {}
    ELSE {req.rejected[1].errors[k].rule : k \in DOMAIN req.rejected[1].errors}
\* a positive finite number, and a non-negative finite one
PositiveFinite(v) == v.t \in {"int", "float"} /\ ~LeqZero(v)
NonNegativeFinite(v) == v.t \in {"int", "float"} /\ ~LtZero(v)
\* the rules of the specification a record violates
ViolatedRules(d) ==
    (IF PositiveFinite(d.currentPrice) THEN {} ELSE {"currentPrice"})
    \cup (IF PositiveFinite(d.marketCap) THEN {} ELSE {"marketCap"})
    \cup (IF NonNegativeFinite(d.volume24h) THEN {} ELSE {"volume24h"})
    \cup (IF d.priceChangePercent24h.t \in {"int", "float"} THEN {}
          ELSE {"priceChangePercent24h"})
    \cup (IF d.rank.t = "int" /\ d.rank.n >= 1000 /\ d.rank.n <= 20000 THEN {}
          ELSE {"rank"})
    \cup (IF d.lastUpdated.t # "datetime" THEN {"lastUpdated.type"}
          ELSE IF now - d.lastUpdated.n > 300 THEN {"lastUpdated.stale"} ELSE {})
    \cup (IF Len(d.sparklineData) > 168 THEN {"sparklineData.length"} ELSE {})
    \cup (IF \E i \in DOMAIN d.sparklineData :
                ~PositiveFinite(d.sparklineData[i].price)
          THEN {"sparklineData.price"} ELSE {})
    \cup (IF \E i \in DOMAIN d.sparklineData :
                d.sparklineData[i].timestamp.t # "datetime"
          THEN {"sparklineData.timestamp"} ELSE {})

\* C21: the validator returns, and reports an error for every rule the
\* record violates, whatever other rules it violates.
C21_EveryViolationReported ==
    FilterCalled =>
       /\ calls.last.outcome = "returned"
       /\ ViolatedRules(Validated) \subseteq ReportedRules

\* the rules on numeric fields
NumericRules ==
    {"currentPrice", "marketCap", "volume24h", "priceChangePercent24h",
     "sparklineData.price"}

\* C22: a record with a numeric field outside its domain (a price or market
\* cap that is not positive and finite, a volume that is not non-negative
\* and finite, a percentage that is not finite, a sparkline price that is
\* not positive and finite) is never in the valid list: when the validator
\* returns, the record is rejected with its errors.
C22_NumericDomains ==
    (FilterCalled /\ ViolatedRules(Validated) \cap NumericRules # {}) =>
       /\ req.valid = <<>>
       /\ ValidateReturned =>
             /\ Len(req.rejected) = 1
             /\ req.rejected[1].data = Validated
             /\ req.rejected[1].errors # <<>>

\* C23: a record whose lastUpdated is not a datetime, or is more than 300
\* seconds before the clock reading of the validation, is rejected with the
\* error of lastUpdated; a record that violates no rule and whose
\* lastUpdated is at most 300 seconds old is valid.
C23_Staleness ==
    FilterCalled =>
       LET d == Validated
       IN IF ~IsDateTime(d.lastUpdated) \/ now - d.lastUpdated.n > 300
          THEN /\ ValidateReturned
               /\ req.valid = <<>>
               /\ ReportedRules \cap {"lastUpdated.type", "lastUpdated.stale"}
                     = (IF IsDateTime(d.lastUpdated)
                        THEN {"lastUpdated.stale"} ELSE {"lastUpdated.type"})
          ELSE ViolatedRules(d) = {} =>
                  (ValidateReturned /\ req.valid = <<d>> /\ req.rejected = <<>>)

RawRecord == req.raw[1]
MapReturned == calls.last.op = "map" /\ calls.last.outcome = "returned"
Mapped == req.normalized[1]
\* a market cap in thousandths of a dollar, as (thousand millions, rest),
\* compared with a whole number of dollars k * 10^9
BelowE9(v, k) == v.e9 < k * 1000
AboveE9(v, k) == v.e9 > k * 1000 \/ (v.e9 = k * 1000 /\ v.n > 0)

\* C27: the category of every market cap is 'small' below 10^9, 'large'
\* above 10^10 and 'mid' from 10^9 to 10^10, both included; 999 999 999 is
\* small, 10^9 and 10^10 are mid, 10^10 + 1 is large.
C27_MarketCapCategory ==
    /\ MapReturned =>
          LET c == Mapped.marketCap
          IN Mapped.marketCapCategory =
                (IF BelowE9(c, 1) THEN Str("small")
                 ELSE IF AboveE9(c, 10) THEN Str("large")
                 ELSE Str("mid"))
    /\ compute_market_cap_category(Big("int", 999, 999999000)) = Str("small")
    /\ compute_market_cap_category(Big("int", 1000, 0)) = Str("mid")
    /\ compute_market_cap_category(Big("int", 10000, 0)) = Str("mid")
    /\ compute_market_cap_category(Big("int", 10000, 1000)) = Str("large")

\* C27 witness: a record with a market cap of exactly 10^10 was mapped to
\* the category 'mid'
C27_Witness ==
    /\ MapReturned /\ Mapped.marketCap = Big("int", 10000, 0)
    /\ Mapped.marketCapCategory = Str("mid")

\* C28: in the record a mapper returns, priceDirection is 'up' exactly when
\* the record's priceChangePercent24h is a number >= 0, marketCapCategory is
\* the category of the record's marketCap, and, for CoinMarketCap,
\* priceChange24h is (priceChangePercent24h / 100) * currentPrice (2.5 for
\* 2.5 percent of 100).
C28_DerivedFields ==
    MapReturned =>
       LET m == Mapped
           pct == m.priceChangePercent24h
       IN /\ m.priceDirection \in {Str("up"), Str("down")}
          /\ m.priceDirection = Str("up") <=>
                (pct.t \in {"int", "float"} /\ pct.n >= 0)
          /\ m.marketCapCategory =
                (IF BelowE9(m.marketCap, 1) THEN Str("small")
                 ELSE IF AboveE9(m.marketCap, 10) THEN Str("large")
                 ELSE Str("mid"))
          /\ (req.provider = "fallback" /\ pct.t # "nan") =>
                /\ m.priceChange24h.t = "float"
                /\ m.priceChange24h.n * 100 * 1000 = pct.n * m.currentPrice.n
          /\ (req.provider = "fallback" /\ pct = FloatV(2500)
                 /\ m.currentPrice = IntV(100)) =>
                (m.priceChange24h = FloatV(2500) /\ m.priceDirection = Str("up"))
          /\ (req.provider = "primary") =>
                m.priceChange24h = RawRecord.price_change_24h

\* C28 witness: CoinMarketCap's percent_change_24h 2.5 and price 100 were
\* mapped to a priceChange24h of 2.5 and the direction 'up'
C28_Witness ==
    /\ MapReturned /\ req.provider = "fallback"
    /\ RawRecord.percent_change_24h = FloatV(2500) /\ RawRecord.price = IntV(100)
    /\ Mapped.priceChange24h = FloatV(2500) /\ Mapped.priceDirection = Str("up")

C30_MissingSeries ==
    (calls.last.op = "map"
        /\ (req.provider = "primary" =>
               RawRecord.sparkline_in_7d.shape \in {"absent", "null", "object"})) =>
       /\ calls.last.outcome = "returned"
       /\ req.normalized # <<>>
       /\ Mapped.sparklineData = <<>>

(***************************************************************************)
(* The probes and the health endpoint.                                     *)
(***************************************************************************)
\* the probes health_check has made: CoinGecko's first, CoinMarketCap's second
Probes == calls.health.probes
HealthDone == calls.health.pc = "done"
HealthResponse == calls.health.response[1]
CacheReachable == redis_client = "client" /\ redis_up

\* C25: ping() of either source client never raises; it returns False when
\* the probe request failed in any way (timeout, connection failure, error
\* status, any other error) and True only when the request completed with a
\* success status.
C25_PingNeverRaises ==
    \A i \in 1..Len(Probes) :
        /\ ~Probes[i].raised
        /\ Probes[i].attempts = 1
        /\ Probes[i].value = (Probes[i].ends = NoExc)

\* both probes made: CoinGecko answered 400, CoinMarketCap answered 2xx
C25_Witness ==
    /\ Len(Probes) = 2
    /\ Probes[1].ends = Exc("HTTPStatusError", 400) /\ Probes[1].value = FALSE
    /\ Probes[2].ends = NoExc /\ Probes[2].value = TRUE

\* C26: health_check never raises, and the status it returns is 'degraded'
\* exactly when the cache is unreachable (the pool not initialised, or the
\* server not answering) or both probes returned False, 'healthy' otherwise.
C26_HealthStatus ==
    /\ calls.health.outcome # "raised"
    /\ HealthDone =>
          /\ calls.health.outcome = "returned"
          /\ Len(Probes) = 2
          /\ HealthResponse.status \in {"healthy", "degraded"}
          /\ HealthResponse.status = "degraded" <=>
                \/ ~CacheReachable
                \/ (~Probes[1].value /\ ~Probes[2].value)
          /\ HealthResponse.cache.connected = CacheReachable

\* the cache reachable, CoinGecko down, CoinMarketCap up: healthy
C26_Witness ==
    /\ HealthDone /\ CacheReachable
    /\ Probes[1].ends = Exc("TimeoutException", 0) /\ Probes[2].ends = NoExc
    /\ HealthResponse.status = "healthy"
    /\ HealthResponse.external_apis.coingecko = "unavailable"

(***************************************************************************)
(* Cancellation of the executor.                                           *)
(***************************************************************************)
\* the positions in the history at which the request was cancelled
CancelIndexes == {i \in 1..Len(events) : events[i].ev = "cancel"}

\* C31: when the request is cancelled while an attempt is in flight or
\* while the executor sleeps between attempts, the wrapper call ends there
\* with the CancelledError: no invocation and no sleep follows, the
\* cancellation is not recorded as the last failure and it is not turned
\* into RetryExhausted.
C31_CancellationTerminates ==
    \A i \in CancelIndexes :
        /\ i = Len(events)
        /\ pc = "done"
        /\ outcome = ReraiseOutcome(Cancellation)
        /\ last_exception # Cancellation

\* cancelled in the sleep that follows a first failed attempt
C31_Witness ==
    /\ Len(events) = 3
    /\ events[1].ev = "call" /\ events[2].ev = "sleep" /\ events[3].ev = "cancel"
    /\ outcome = ReraiseOutcome(Cancellation)
    /\ last_exception = Exc("TimeoutException", 0)

\* cancelled while the second attempt is in flight
C31_WitnessInFlight ==
    /\ Len(events) = 4
    /\ events[3] = CallEvent(1) /\ events[4].ev = "cancel"
    /\ outcomes[2] = Failed(Cancellation)
    /\ outcome = ReraiseOutcome(Cancellation)

(***************************************************************************)
(* How a wrapper call can end, and what retry_api_call retries.            *)
(***************************************************************************)
\* the wrapper call is over
CallOver == pc = "done"
\* the failure of invocation i was followed by a sleep
Retried(i) == Len(events) >= 2 * i
\* the wrapper is the one retry_api_call builds
IsApiCall ==
    /\ max_attempts = ApiCallMaxAttempts
    /\ base_delay = ApiCallBaseDelayMs
    /\ retryable_exceptions = ApiCallRetryableExceptions
\* the exception types the claim names for retry_api_call
ClaimedApiCallTypes ==
    {"TimeoutException", "ConnectError", "ConnectTimeout", "HTTPStatusError"}

\* C36 (as claimed): for every budget N >= 0 a finished wrapper call has
\* returned the result of a successful invocation, or raised the error of
\* its last invocation, one the wrapper does not retry, or raised
\* RetryExhausted; it never ends in any other way.
C36_ThreeWaysToEnd ==
    CallOver =>
        \/ /\ outcome.kind = "returned"
           /\ outcomes # <<>>
           /\ outcomes[Len(outcomes)].ok
           /\ outcome.result = outcomes[Len(outcomes)].result
        \/ /\ outcome.kind = "raised"
           /\ outcomes # <<>>
           /\ ~outcomes[Len(outcomes)].ok
           /\ outcome.exc = outcomes[Len(outcomes)].exc
           /\ ~(IsInstance(outcome.exc, retryable_exceptions)
                   /\ is_retryable_error(outcome.exc))
        \/ outcome.kind = "RetryExhausted"

\* C37: the wrapper built by retry_api_call follows a failure with a sleep
\* only when the failure is an instance of a class of its tuple and
\* is_retryable_error holds of it; a failure outside the tuple (asyncio's
\* timeout included) ends the call at that invocation with that very error.
C37_ApiCallRetries ==
    IsApiCall =>
        \A i \in DOMAIN outcomes :
            LET e == outcomes[i].exc
            IN ~outcomes[i].ok =>
                  /\ Retried(i) =>
                        /\ IsInstance(e, ClaimedApiCallTypes)
                        /\ is_retryable_error(e)
                  /\ ~IsInstance(e, ClaimedApiCallTypes) =>
                        /\ i = Len(outcomes)
                        /\ CallOver
                        /\ outcome = ReraiseOutcome(e)
                        /\ Calls = i /\ Sleeps = i - 1

\* asyncio.TimeoutError at the first invocation under retry_api_call: the
\* call is over after one invocation, with that error
C37_Witness ==
    /\ IsApiCall /\ CallOver
    /\ outcomes = <<Failed(Exc("AsyncioTimeoutError", 0))>>
    /\ is_retryable_error(outcomes[1].exc)
    /\ outcome = ReraiseOutcome(Exc("AsyncioTimeoutError", 0))
    /\ Calls = 1 /\ Sleeps = 0

(***************************************************************************)
(* The probes under the backoff executor.                                  *)
(***************************************************************************)
\* the probe requests ping() has made in the wrapper call so far
RequestIndexes == {i \in DOMAIN events : events[i].ev = "request"}

\* C38: a call of the wrapped ping() makes exactly one probe request and
\* never sleeps: a failed request makes ping return False, which the wrapper
\* returns as the result of its first invocation.
C38_ProbeIsNeverRetried ==
    /\ Sleeps = 0
    /\ pc # "sleeping"
    /\ Calls <= 1
    /\ Cardinality(RequestIndexes) <= Calls
    /\ CallOver =>
          /\ Calls = 1
          /\ Cardinality(RequestIndexes) = 1
          /\ outcome.kind = "returned"
          /\ outcome.result = PingResult(events[Len(events)].arg = NoExc)
    /\ \A i \in 1..Len(Probes) :
          ~Probes[i].raised /\ Probes[i].attempts = 1

\* the probe of CoinGecko timed out and the probe of CoinMarketCap got a
\* 500: one request each, both returned False
C38_Witness ==
    /\ Len(Probes) = 2
    /\ Probes[1].ends = Exc("TimeoutException", 0) /\ ~Probes[1].value
    /\ Probes[2].ends = Exc("HTTPStatusError", 500) /\ ~Probes[2].value
    /\ Probes[2].attempts = 1
    /\ Calls = 1 /\ Sleeps = 0

(***************************************************************************)
(* The result of a validation.                                             *)
(***************************************************************************)
\* the ValidationResult of the record validated
Validation == calls.last.value[1]

\* C35: a ValidationResult that validate_cryptocurrency returns is valid
\* exactly when its error list is empty and carries a record exactly when
\* it is valid; the record it carries is the input, and the input is after
\* the call what it was before.
C35_ValidationOutcome ==
    ValidateReturned =>
        /\ Validation.is_valid <=> Validation.errors = <<>>
        /\ Validation.data # None <=> Validation.is_valid
        /\ Validation.is_valid => Validation.data = Validated
        /\ calls.last.data = <<Validated>>

\* a record in its domain, with 168 points: no error, the record itself
C35_Witness ==
    /\ ValidateReturned
    /\ Validation.is_valid /\ Validation.errors = <<>>
    /\ Validation.data = Validated
    /\ Len(Validated.sparklineData) = 168

\* a record with a price of 0 and nothing else wrong: one error, no record
C35_WitnessInvalid ==
    /\ ValidateReturned
    /\ Validated.currentPrice = IntV(0)
    /\ ~Validation.is_valid /\ Len(Validation.errors) = 1
    /\ Validation.data = None

(***************************************************************************)
(* The keyspace of the cache.                                              *)
(***************************************************************************)
\* key starts with 'crypto:'
StartsWithCrypto(key) == Len(key) >= 7 /\ SubSeq(key, 1, 7) = "crypto:"
\* clear_all has just completed; the keyspace when it began; the keys its
\* scan had not passed
ClearDone == calls.last.op = "clear" /\ calls.ks.pc = "idle"
BeforeClear == calls.ks.before[1]
NotScanned == {calls.ks.todo[i] : i \in DOMAIN calls.ks.todo}
\* a typed set or a delete completes in this step
SetOrDeleteCompletes ==
    /\ calls'.ks.ops = calls.ks.ops + 1
    /\ calls'.last.op \in {"set", "delete"}

\* C32: clear_all never raises and never deletes a key that does not start
\* with 'crypto:'; when it completes without a failure and no set ran during
\* it, no key starting with 'crypto:' is left; when a failure of the store
\* ends it part-way, the keys its scan had not passed are as they were.
C32_ClearByPrefix ==
    /\ calls.last.op = "clear" => calls.last.outcome = "returned"
    /\ (calls.ks.pc = "clearing" \/ ClearDone) =>
          \A k \in AllKeys :
             ~StartsWithCrypto(k) => store[k] = BeforeClear[k]
    /\ (ClearDone /\ ~calls.ks.concurrent) =>
          IF calls.ks.failed
          THEN \A k \in NotScanned : store[k] = BeforeClear[k]
          ELSE \A k \in AllKeys : StartsWithCrypto(k) => ~store[k].present

\* every key was there, clear_all completed: the foreign key alone is left
C32_Witness ==
    /\ ClearDone /\ ~calls.ks.failed /\ ~calls.ks.concurrent
    /\ \A k \in AllKeys : BeforeClear[k].present
    /\ \A k \in AllKeys : store[k].present <=> k = ForeignKey

\* Redis failed after three keys: the five keys not passed are still there
C32_WitnessFailure ==
    /\ ClearDone /\ calls.ks.failed /\ ~calls.ks.concurrent
    /\ Len(calls.ks.todo) = 5
    /\ \A k \in AllKeys : BeforeClear[k].present
    /\ \A k \in NotScanned : store[k].present
    /\ ~store["crypto:list:top20"].present

\* C34: the keys of distinct (kind, identifier) pairs are distinct, and a
\* typed set or a delete changes the entry of its own key only: it leaves
\* the value and the expiry of every other key as they were, and when it
\* succeeds the entry of its key is the one written (none after a delete).
C34_OneKeyPerCall ==
    /\ \A p, q \in KindIds :
          p # q => TypedKey(p[1], p[2], TRUE) # TypedKey(q[1], q[2], TRUE)
    /\ [][SetOrDeleteCompletes =>
             /\ \A k \in AllKeys \ {calls'.ks.key} : store'[k] = store[k]
             /\ calls'.last.failure = "none" =>
                   /\ calls'.last.op = "delete" => store'[calls'.ks.key] = NoEntry
                   /\ calls'.last.op = "set" =>
                         /\ store'[calls'.ks.key].present
                         /\ store'[calls'.ks.key].value
                               = JsonDumps(calls'.last.data)]_vars

\* the details of the coin 'top20' were set while every key was there: the
\* seven other entries are as they were
C34_Witness ==
    /\ calls.last.op = "set" /\ calls.last.failure = "none"
    /\ calls.ks.key = "crypto:details:top20" /\ calls.ks.ops = 1
    /\ store[calls.ks.key] = Entry(JsonDumps(BatchB), DefaultTtl)
    /\ \A k \in AllKeys \ {calls.ks.key} :
          store[k] = Entry(JsonDumps(BatchA), DefaultTtl)

\* C39: the top list has one key whatever include_sparkline is: while the
\* list given to the last set_top_cryptocurrencies is stored, a
\* get_top_cryptocurrencies that reaches Redis returns that stored list,
\* with either value of include_sparkline in the set and in the get.
C39_OneTopListKey ==
    (/\ calls.last.op = "get" /\ calls.last.data[1] = "top"
     /\ calls.last.failure = "none"
     /\ calls.ks.top.set) =>
        /\ calls.last.hit
        /\ calls.last.value = JsonLoads(JsonDumps(calls.ks.top.data))

\* a list without sparklines set with include_sparkline=False, then read
\* with include_sparkline=True
C39_Witness ==
    /\ calls.last.op = "get" /\ calls.last.data = <<"top", TRUE>>
    /\ calls.ks.top.set /\ ~calls.ks.top.flag /\ calls.ks.top.data = BatchB
    /\ BatchB[1].sparklineData = <<>>
    /\ calls.last.hit /\ calls.last.value = JsonLoads(JsonDumps(BatchB))

\* the other way: set with include_sparkline=True, read with False
C39_WitnessReverse ==
    /\ calls.last.op = "get" /\ calls.last.data = <<"top", FALSE>>
    /\ calls.ks.top.set /\ calls.ks.top.flag /\ calls.ks.top.data = BatchA
    /\ calls.last.hit /\ calls.last.value = JsonLoads(JsonDumps(BatchA))

(***************************************************************************)
(* The lifecycle of the Redis client.                                      *)
(***************************************************************************)
\* the calls of init_redis_pool and close_redis_pool made so far, in order
PoolChanges ==
    SelectSeq(calls.pool.log, LAMBDA c : c # "get")
\* the most recent init_redis_pool returned and close_redis_pool has not
\* been called since
PoolReady ==
    /\ PoolChanges # <<>>
    /\ PoolChanges[Len(PoolChanges)] = "init returned"
\* get_redis_client was the last call
GotLast ==
    /\ calls.pool.log # <<>>
    /\ calls.pool.log[Len(calls.pool.log)] = "get"

\* C33 (as claimed): get_redis_client returns the client exactly when the
\* most recent init_redis_pool completed and close_redis_pool was not
\* called since; never initialised, after an initialisation that failed its
\* connectivity check and after a close it raises RuntimeError.
C33_ClientOnlyWhenReady ==
    GotLast =>
        IF PoolReady THEN calls.pool.got = "client"
        ELSE calls.pool.got = "RuntimeError"

====
